---- MODULE Spec2Model ----
(***************************************************************************)
(* ISO/IEC 14443-A air-interface engine of armsrc/iso14443a.c:             *)
(* timing controller, Miller and Manchester codecs, sniffer arbitration    *)
(* and the reader selection engine, as state machines.                     *)
(***************************************************************************)
EXTENDS Integers, Sequences, FiniteSets, TLC

VARIABLES
    clk,                      \* GetCountSspClk(): the ssp clock
    NextTransferTime,         \* static uint32_t NextTransferTime
    LastTimeProxToAirStart,   \* static uint32_t LastTimeProxToAirStart
    g_hf_field_active,        \* the HF field flag read by TransmitFor14443a
    lastOp,                   \* the operation that produced this state
    Uart,                     \* static tUart14a Uart (Miller decoder)
    Demod,                    \* static tDemod14a Demod (Manchester decoder)
    air,                      \* samples on their way to the decoder
    sent,                     \* the frame that was encoded onto the air
    rxCount,                  \* how often the decoder reported a complete frame
    rxFrame,                  \* the decoder's output at its last completion
    line,                     \* the tag symbols on the air and the receive offset
    rd,                       \* the reader in a selection: locals, p_card, uid_ptr
    env,                      \* what is in the field
    sniff,                    \* the sniffer's locals
    emu,                      \* the tag emulator's locals and memory
    apdu,                     \* the ISO 14443-4 block exchange of the reader
    hf14a,                    \* hf14aconfig and hf14a_polling_parameters
    prng,                     \* two nonces and the loop of dist_nt over them
    mf,                       \* ReaderMifare: its locals, statics and the tag
    emlog,                    \* EmLogTrace: the measured times and the logged ones
    gp,                       \* GetParity: the command and the parity buffer
    getcmd,                   \* EmGetCmd: its locals and what is around the emulator
    sess,                     \* sniff and simulation sessions: tracing, field, packets
    simi,                     \* SimulateIso14443aInit: its statics over the sessions
    ms,                       \* MillerDecoding fed with any stream of samples
    gate                      \* reader transmits and receptions of one session

tmVars == <<clk, NextTransferTime, LastTimeProxToAirStart, g_hf_field_active, lastOp>>

codecVars == <<Uart, Demod, air, sent, rxCount, rxFrame, line>>

selVars == <<rd, env>>

\* the parts that run on their own: none of them touches the others' state
restVars == <<apdu, hf14a, prng, mf, emlog, gp, getcmd, sess, simi, ms, gate>>

vars == <<tmVars, codecVars, selVars, sniff, emu, restVars>>

\* what the actions of one part leave alone
exceptTm == <<codecVars, selVars, sniff, emu, restVars>>

exceptCodec == <<tmVars, selVars, sniff, emu, restVars>>

exceptSel == <<tmVars, codecVars, sniff, emu, restVars>>

exceptSniff == <<tmVars, air, sent, rxCount, rxFrame, line, selVars, emu, restVars>>

exceptEmu == <<tmVars, codecVars, selVars, sniff, restVars>>

exceptApdu == <<tmVars, codecVars, selVars, sniff, emu, hf14a, prng, mf, emlog, gp, getcmd, sess, simi, ms, gate>>

exceptConfig == <<tmVars, codecVars, selVars, sniff, emu, apdu, prng, mf, emlog, gp, getcmd, sess, simi, ms, gate>>

exceptPrng == <<tmVars, codecVars, selVars, sniff, emu, apdu, hf14a, mf, emlog, gp, getcmd, sess, simi, ms, gate>>

exceptMifare == <<tmVars, codecVars, selVars, sniff, emu, apdu, hf14a, prng, emlog, gp, getcmd, sess, simi, ms, gate>>

exceptEmLog == <<tmVars, codecVars, selVars, sniff, emu, apdu, hf14a, prng, mf, gp, getcmd, sess, simi, ms, gate>>

exceptParity == <<tmVars, codecVars, selVars, sniff, emu, apdu, hf14a, prng, mf, emlog, getcmd, sess, simi, ms, gate>>

exceptGetCmd == <<tmVars, codecVars, selVars, sniff, emu, apdu, hf14a, prng, mf, emlog, gp, sess, simi, ms, gate>>

exceptSession == <<tmVars, codecVars, selVars, sniff, emu, apdu, hf14a, prng, mf, emlog, gp, getcmd, simi, ms, gate>>

exceptSimInit == <<tmVars, codecVars, selVars, sniff, emu, apdu, hf14a, prng, mf, emlog, gp, getcmd, sess, ms, gate>>

exceptStream == <<tmVars, codecVars, selVars, sniff, emu, apdu, hf14a, prng, mf, emlog, gp, getcmd, sess, simi, gate>>

exceptGate == <<tmVars, codecVars, selVars, sniff, emu, apdu, hf14a, prng, mf, emlog, gp, getcmd, sess, simi, ms>>

----------------------------------------------------------------------------
(* Machine arithmetic *)

Pow2(n) == 2 ^ n

U16(x) == x % 65536

U8(x) == x % 256

MAX(a, b) == IF a > b THEN a ELSE b

MIN(a, b) == IF a < b THEN a ELSE b

\* bit k of x
Bit(x, k) == (x \div Pow2(k)) % 2

\* x >> k
Shr(x, k) == x \div Pow2(k)

\* x & 0xfffffff8
AlignDown8(x) == x - (x % 8)

----------------------------------------------------------------------------
(* Timing controller *)

REQUEST_GUARD_TIME == (7000 \div 16) + 1

FRAME_DELAY_TIME_PICC_TO_PCD == (1172 \div 16) + 1

DELAY_AIR2ARM_AS_READER == 3 + 16 + 8 + 8 * 16 + 4 * 16 - 8 * 16

DELAY_ARM2AIR_AS_READER == 4 * 16 + 8 * 16 + 8 + 8 + 1

\* Largest clock value the model lets the ssp clock reach
MaxClk == 900

\* Steps by which the clock advances between two operations
ClkSteps == {67, 451}

\* Offsets (relative to the clock) a caller passes as *timing != 0
TimingOffsets == {-130, -3, 9, 600}

TimingInit ==
    /\ clk = 0
    /\ NextTransferTime = 0
    /\ LastTimeProxToAirStart = 0
    /\ g_hf_field_active = FALSE
    /\ lastOp = "init"

\* iso14443a_setup: restart the clock, reset NextTransferTime, field on
iso14443a_setup ==
    /\ clk' = 0
    /\ NextTransferTime' = 2 * DELAY_ARM2AIR_AS_READER
    /\ g_hf_field_active' = TRUE
    /\ lastOp' = "setup"
    /\ UNCHANGED LastTimeProxToAirStart
    /\ UNCHANGED exceptTm

\* switch_off: the field is dropped at the end of a session
switch_off ==
    /\ g_hf_field_active
    /\ g_hf_field_active' = FALSE
    /\ lastOp' = "off"
    /\ UNCHANGED <<clk, NextTransferTime, LastTimeProxToAirStart>>
    /\ UNCHANGED exceptTm

\* the clock runs while the firmware does something else
Tick ==
    /\ \E d \in ClkSteps :
        /\ clk + d <= MaxClk
        /\ clk' = clk + d
    /\ lastOp' = "tick"
    /\ UNCHANGED <<NextTransferTime, LastTimeProxToAirStart, g_hf_field_active>>
    /\ UNCHANGED exceptTm

UnguardedNextTransferTime(ntt, start) == MAX(ntt, start)

\* NextTransferTime after the frame is out (every value stays below 2^31,
\* so no 32-bit operation of the code wraps within MaxClk)
GuardedNextTransferTime(ntt, start) == MAX(ntt, start + REQUEST_GUARD_TIME)

\* a start time that looks at the clock alone
ThisTransferTimeUngated(ntt, now) == AlignDown8(now) + 8

\* start time of a transmit with timing == NULL
ThisTransferTime(ntt, now) == AlignDown8(MAX(ntt, now)) + 8

\* start time stamped with *timing == 0
MeasuredTime(now) == AlignDown8(now + 8)

\* TransmitFor14443a with the field off: warning, nothing sent
TransmitFieldOff ==
    /\ ~g_hf_field_active
    /\ lastOp' = "tx_skipped"
    /\ UNCHANGED <<clk, NextTransferTime, LastTimeProxToAirStart, g_hf_field_active>>
    /\ UNCHANGED exceptTm

\* TransmitFor14443a(cmd, len, NULL)
TransmitNext ==
    /\ g_hf_field_active
    /\ LET start == ThisTransferTime(NextTransferTime, clk) IN
        /\ start <= MaxClk
        /\ clk' = MAX(clk, start)
        /\ LastTimeProxToAirStart' = start
        /\ NextTransferTime' = GuardedNextTransferTime(NextTransferTime, start)
    /\ lastOp' = "tx_null"
    /\ UNCHANGED g_hf_field_active
    /\ UNCHANGED exceptTm

\* TransmitFor14443a(cmd, len, &t) with t == 0
TransmitNow ==
    /\ g_hf_field_active
    /\ LET start == MeasuredTime(clk) IN
        /\ start <= MaxClk
        /\ clk' = MAX(clk, AlignDown8(start))
        /\ LastTimeProxToAirStart' = start
        /\ NextTransferTime' = GuardedNextTransferTime(NextTransferTime, start)
    /\ lastOp' = "tx_zero"
    /\ UNCHANGED g_hf_field_active
    /\ UNCHANGED exceptTm

\* TransmitFor14443a(cmd, len, &t) with t != 0
TransmitAt ==
    /\ g_hf_field_active
    /\ \E off \in TimingOffsets :
        LET t == clk + off IN
        /\ t > 0
        /\ t <= MaxClk
        /\ clk' = MAX(clk, AlignDown8(t))
        /\ LastTimeProxToAirStart' = t
        /\ NextTransferTime' = GuardedNextTransferTime(NextTransferTime, t)
    /\ lastOp' = "tx_at"
    /\ UNCHANGED g_hf_field_active
    /\ UNCHANGED exceptTm

\* GetIso14443aAnswerFromTag: a tag frame ended at Demod.endTime = clk
AnswerReceived ==
    /\ g_hf_field_active
    /\ clk >= (DELAY_AIR2ARM_AS_READER + DELAY_ARM2AIR_AS_READER) \div 16
    /\ NextTransferTime' =
          MAX(NextTransferTime,
              clk - (DELAY_AIR2ARM_AS_READER + DELAY_ARM2AIR_AS_READER) \div 16
                  + FRAME_DELAY_TIME_PICC_TO_PCD)
    /\ lastOp' = "rx"
    /\ UNCHANGED <<clk, LastTimeProxToAirStart, g_hf_field_active>>
    /\ UNCHANGED exceptTm

----------------------------------------------------------------------------
(* Bit operations on machine words *)

RECURSIVE And(_, _)
\* x & y
And(x, y) ==
    IF x = 0 \/ y = 0 THEN 0
    ELSE (x % 2) * (y % 2) + 2 * And(x \div 2, y \div 2)

RECURSIVE Or(_, _)
\* x | y
Or(x, y) ==
    IF x = 0 THEN y
    ELSE IF y = 0 THEN x
    ELSE MAX(x % 2, y % 2) + 2 * Or(x \div 2, y \div 2)

RECURSIVE Xor(_, _)
\* x ^ y
Xor(x, y) ==
    IF x = 0 THEN y
    ELSE IF y = 0 THEN x
    ELSE ((x + y) % 2) + 2 * Xor(x \div 2, y \div 2)

\* number of bytes that hold n bits
nbytes(n) == (n + 7) \div 8

RECURSIVE PopCount(_)
PopCount(x) == IF x = 0 THEN 0 ELSE (x % 2) + PopCount(x \div 2)

\* odd parity of a byte: 1 when the byte has an even number of ones
oddparity8(b) == 1 - (PopCount(b) % 2)

----------------------------------------------------------------------------
(* Line symbols *)

SEC_D == 240

SEC_E == 15

SEC_F == 0

SEC_COLL == 255

SEC_X == 12

SEC_Y == 0

SEC_Z == 192

\* the eight correction stuff bits 0,0,0,0,1,0,0,0 packed MSB first
CorrectionByte == 8

RECURSIVE GetParityFrom(_, _, _)
\* the loop of GetParity from byte i on: bit (7 - i mod 8) of par[i div 8]
GetParityFrom(cmd, i, par) ==
    IF i > Len(cmd) THEN par
    ELSE LET k == (i - 1) \div 8 + 1
             p == oddparity8(cmd[i]) * Pow2(7 - ((i - 1) % 8))
         IN GetParityFrom(cmd, i + 1, [par EXCEPT ![k] = Or(@, p)])

\* GetParity: the parity bytes written for cmd (the last store writes
\* par[len div 8] even when it holds no bit)
GetParity(cmd) ==
    GetParityFrom(cmd, 1, [k \in 1..(Len(cmd) \div 8 + 1) |-> 0])

\* par[i >> 3] & (0x80 >> (i & 7)), for the 0-based byte index i
ParityBitOf(par, i) == Bit(par[i \div 8 + 1], 7 - (i % 8))

----------------------------------------------------------------------------
(* Reader -> tag: Miller encoder *)

\* A reader frame: cmd bytes, number of bits, parity bytes, par != NULL
ReaderFrame(cmd, bits, par, hasPar) ==
    [cmd |-> cmd, bits |-> bits, par |-> par, hasPar |-> hasPar]

RECURSIVE ReaderByteBits(_, _, _)
\* the inner loop over j: bits j..bitsleft-1 of byte b, LSB first
ReaderByteBits(b, j, bitsleft) ==
    IF j >= bitsleft THEN <<>>
    ELSE <<Bit(b, j)>> \o ReaderByteBits(b, j + 1, bitsleft)

RECURSIVE ReaderFrameBitsFrom(_, _)
\* the outer loop over i: data bits of each byte, then its parity bit when
\* the byte was complete and par != NULL
ReaderFrameBitsFrom(f, i) ==
    IF i >= nbytes(f.bits) THEN <<>>
    ELSE LET bitsleft == MIN(f.bits - i * 8, 8)
             parity == IF bitsleft = 8 /\ f.hasPar
                       THEN <<ParityBitOf(f.par, i)>>
                       ELSE <<>>
         IN ReaderByteBits(f.cmd[i + 1], 0, bitsleft) \o parity
                \o ReaderFrameBitsFrom(f, i + 1)

\* `last` never cleared once a 1 was coded
StaleLast(bitseq, k) == IF \E j \in 1..k : bitseq[j] = 1 THEN 1 ELSE 0

\* the variable `last` after k bits are coded: 0 at the start, set by a
\* Sequence X, cleared by a Sequence Y, left at 0 by a Sequence Z
MillerLast(bitseq, k) == IF k = 0 THEN 0 ELSE bitseq[k]

\* the symbol for one bit: X for 1; for 0, Z after a 0 and Y after a 1
MillerSymbol(b, last) ==
    IF b = 1 THEN SEC_X ELSE IF last = 0 THEN SEC_Z ELSE SEC_Y

\* CodeIso14443aBitsAsReaderPar: ToSend for a reader frame: start of
\* communication (Sequence Z), one symbol per bit, the logic 0 of the end
\* of communication and a Sequence Y
CodeIso14443aBitsAsReaderPar(f) ==
    LET bitseq == ReaderFrameBitsFrom(f, 0)
        n == Len(bitseq)
    IN <<SEC_Z>>
       \o [k \in 1..n |-> MillerSymbol(bitseq[k], MillerLast(bitseq, k - 1))]
       \o <<MillerSymbol(0, MillerLast(bitseq, n)), SEC_Y>>

\* What the tag-side receiver samples for a ToSend byte: 1 is carrier,
\* 0 is pause (Z = 00111111, X = 11110011, Y = 11111111)
PauseSample(sym) == 255 - sym

\* unmodulated carrier
CarrierSample == 255

RECURSIVE Repeat(_, _)
Repeat(x, n) == IF n <= 0 THEN <<>> ELSE <<x>> \o Repeat(x, n - 1)

MillerAir(f, lead) ==
    LET ts == CodeIso14443aBitsAsReaderPar(f)
    IN Repeat(CarrierSample, lead) \o [k \in 1..Len(ts) |-> PauseSample(ts[k])]

----------------------------------------------------------------------------
(* Reader -> tag: Miller decoder *)

Mod_Miller_LUT(n) == n \in {1, 3, 7, 9}

IsMillerModulationNibble1(b) == Mod_Miller_LUT((b \div 16) % 16)

IsMillerModulationNibble2(b) == Mod_Miller_LUT(b % 16)

ISO14443A_STARTBIT_MASK == 134213504       \* 0x07FFEF80

ISO14443A_STARTBIT_PATTERN == 134188928    \* 0x07FF8F80

\* Uart14aReset; output and parity hold the bytes written since the reset
Uart14aReset(u) ==
    [u EXCEPT !.state = "UNSYNCD", !.shiftReg = 0, !.bitCount = 0, !.len = 0,
              !.posCnt = 0, !.syncBit = 9999, !.parityBits = 0,
              !.parityLen = 0, !.fourBits = 0, !.output = <<>>,
              !.parity = <<>>]

\* Uart14aInit(d, n, par)
Uart14aInit(n) ==
    [state |-> "UNSYNCD", shiftReg |-> 0, bitCount |-> 0, len |-> 0,
     posCnt |-> 0, syncBit |-> 9999, parityBits |-> 0, parityLen |-> 0,
     fourBits |-> 0, output |-> <<>>, parity |-> <<>>, output_len |-> n]

\* Uart.fourBits = (Uart.fourBits << 8) | bit; bit 31 is never read
\* and is not kept
ShiftInFourBits(f, bit) == (f % Pow2(23)) * 256 + bit

\* the chain of start-bit tests: 7 - k for the first shift k that matches
StartSyncBit(f) ==
    LET hit == {k \in 0..7 :
                  And(f, Shr(ISO14443A_STARTBIT_MASK, k))
                      = Shr(ISO14443A_STARTBIT_PATTERN, k)}
    IN IF hit = {} THEN 9999
       ELSE 7 - (CHOOSE k \in hit : \A j \in hit : k <= j)

\* Uart.parity[Uart.parityLen++] = Uart.parityBits
StoreUartParity(u, bits) ==
    [u EXCEPT !.parity = Append(@, bits), !.parityLen = @ + 1]

\* "if we decoded a full byte (including parity)"
StoreUartByte(u) ==
    IF u.bitCount < 9 THEN u
    ELSE LET v == [u EXCEPT !.output = Append(@, u.shiftReg % 256),
                            !.len = @ + 1,
                            !.parityBits = Or(U8(u.parityBits * 2),
                                              Bit(u.shiftReg, 8)),
                            !.bitCount = 0,
                            !.shiftReg = 0]
         IN IF v.len % 8 = 0
            THEN [StoreUartParity(v, v.parityBits) EXCEPT !.parityBits = 0]
            ELSE v

\* Sequence Y after a logic 0: end of communication
MillerEndOfCommunication(u) ==
    LET v == [u EXCEPT !.state = "UNSYNCD", !.bitCount = @ - 1,
                       !.shiftReg = U16(@ * 2)]
    IN IF v.bitCount > 0
       THEN LET sr == Shr(v.shiftReg, 9 - v.bitCount)
                n == v.len + 1
                pb == U8(U8(v.parityBits * 2) * Pow2(8 - (n % 8)))
            IN [uart |-> StoreUartParity(
                            [v EXCEPT !.shiftReg = sr,
                                      !.output = Append(@, sr % 256),
                                      !.len = n, !.parityBits = pb], pb),
                done |-> TRUE]
       ELSE LET w == IF v.len % 8 # 0
                     THEN LET pb == U8(v.parityBits * Pow2(8 - (v.len % 8)))
                          IN StoreUartParity([v EXCEPT !.parityBits = pb], pb)
                     ELSE v
            IN IF w.len # 0 THEN [uart |-> w, done |-> TRUE]
               ELSE [uart |-> Uart14aReset(w), done |-> FALSE]

\* no test of what a Sequence Z follows
FollowsAnything(u) == FALSE

\* "error - must not follow after X": the test made on a Sequence Z
FollowsX(u) == u.state = "MILLER_X"

\* MillerDecoding(bit, non_real_time): the decoder after the sample and
\* the value returned
MillerDecoding(u0, bit) ==
    IF u0.len = u0.output_len THEN [uart |-> u0, done |-> TRUE]
    ELSE
    LET u == [u0 EXCEPT !.fourBits = ShiftInFourBits(@, bit)]
        win == Shr(u.fourBits, u.syncBit) % 256
    IN IF u.state = "UNSYNCD"
       THEN LET sb == StartSyncBit(u.fourBits)
            IN [uart |-> IF sb # 9999
                         THEN [u EXCEPT !.syncBit = sb,
                                        !.state = "START_OF_COMMUNICATION"]
                         ELSE [u EXCEPT !.syncBit = 9999],
                done |-> FALSE]
       ELSE IF IsMillerModulationNibble1(win)
       THEN IF IsMillerModulationNibble2(win)
            THEN [uart |-> Uart14aReset(u), done |-> FALSE]
            ELSE IF FollowsX(u)
            THEN [uart |-> Uart14aReset(u), done |-> FALSE]
            ELSE [uart |-> StoreUartByte(
                              [u EXCEPT !.bitCount = @ + 1,
                                        !.shiftReg = Shr(@, 1),
                                        !.state = "MILLER_Z"]),
                  done |-> FALSE]
       ELSE IF IsMillerModulationNibble2(win)
       THEN [uart |-> StoreUartByte(
                         [u EXCEPT !.bitCount = @ + 1,
                                   !.shiftReg = Or(Shr(@, 1), 256),
                                   !.state = "MILLER_X"]),
             done |-> FALSE]
       ELSE IF u.state \in {"MILLER_Z", "MILLER_Y"}
       THEN MillerEndOfCommunication(u)
       ELSE IF u.state = "START_OF_COMMUNICATION"
       THEN [uart |-> Uart14aReset(u), done |-> FALSE]
       ELSE [uart |-> StoreUartByte(
                         [u EXCEPT !.bitCount = @ + 1,
                                   !.shiftReg = Shr(@, 1),
                                   !.state = "MILLER_Y"]),
             done |-> FALSE]

----------------------------------------------------------------------------
(* Miller round trip: the encoder's stream fed to the decoder *)

\* longest frame built from FrameBytes
MaxFrameBytes == 2

\* size of the receive buffer handed to Uart14aInit / Demod14aInit
ReceiveBufLen == 12

\* bytes 0x00, 0x93, 0xFF
FrameBytes == {0, 38, 147, 255}

\* 7-bit commands 0x26 (REQA), 0x52 (WUPA), 0x00, 0x7F
ShortFrameBytes == {38, 82, 0, 127}

\* a 9-byte SELECT frame: its parity fills a first parity byte and begins a second
LongFrame == <<147, 112, 136, 4, 17, 34, 191, 90, 195>>

\* carrier samples before the frame, and after its end
LeadIns == {2, 3}

TrailingSamples == {0, 1}

RECURSIVE PackParityFrom(_, _, _)
PackParityFrom(pbits, i, par) ==
    IF i > Len(pbits) THEN par
    ELSE PackParityFrom(pbits, i + 1,
            [par EXCEPT ![(i - 1) \div 8 + 1] =
                 Or(@, pbits[i] * Pow2(7 - ((i - 1) % 8)))])

\* parity bits laid out as GetParity lays them out
PackParity(pbits) ==
    PackParityFrom(pbits, 1, [k \in 1..(Len(pbits) \div 8 + 1) |-> 0])

ByteStrings(n) == [1..n -> FrameBytes]

\* the frames sent: whole bytes with any parity bits, a long frame with its
\* odd parity and with the complement, and short frames
ReaderFrames ==
    {ReaderFrame(c, 8 * Len(c), PackParity(pb), TRUE) :
        c \in UNION {ByteStrings(n) : n \in 1..MaxFrameBytes},
        pb \in UNION {[1..n -> {0, 1}] : n \in 1..MaxFrameBytes}}
    \cup {ReaderFrame(LongFrame, 72, GetParity(LongFrame), TRUE),
          ReaderFrame(LongFrame, 72,
                      [k \in 1..2 |-> 255 - GetParity(LongFrame)[k]], TRUE)}
    \cup {ReaderFrame(<<b>>, 7, <<0>>, TRUE) : b \in ShortFrameBytes}

NoFrame == [cmd |-> <<>>, bits |-> 0, par |-> <<>>, hasPar |-> FALSE]

NoRx == [cmd |-> <<>>, par |-> <<>>, len |-> 0, bitCount |-> 0, collisionPos |-> 0]

NoLine == [stream |-> <<>>, offset |-> 0]

CodecInit ==
    /\ Uart = Uart14aInit(ReceiveBufLen)
    /\ air = <<>>
    /\ sent = NoFrame
    /\ rxCount = 0
    /\ rxFrame = NoRx
    /\ line = NoLine

\* the reader encodes a frame; the receiver starts GetIso14443aCommandFromReader
ReaderSends ==
    /\ air = <<>>
    /\ sent = NoFrame
    /\ \E f \in ReaderFrames, lead \in LeadIns, trail \in TrailingSamples :
        /\ air' = MillerAir(f, lead) \o Repeat(CarrierSample, trail)
        /\ sent' = f
    /\ Uart' = Uart14aInit(ReceiveBufLen)
    /\ rxCount' = 0
    /\ rxFrame' = NoRx
    /\ UNCHANGED <<Demod, line>>
    /\ UNCHANGED exceptCodec

\* one sample goes through MillerDecoding; on completion the caller takes the
\* frame and the decoder is reset for the next reception
MillerFeed ==
    /\ air # <<>>
    /\ LET r == MillerDecoding(Uart, Head(air)) IN
        /\ air' = Tail(air)
        /\ IF r.done
           THEN /\ rxCount' = rxCount + 1
                /\ rxFrame' = [cmd |-> r.uart.output, par |-> r.uart.parity,
                               len |-> r.uart.len, bitCount |-> r.uart.bitCount,
                               collisionPos |-> 0]
                /\ Uart' = Uart14aReset(r.uart)
           ELSE /\ Uart' = r.uart
                /\ UNCHANGED <<rxCount, rxFrame>>
    /\ UNCHANGED <<sent, Demod, line>>
    /\ UNCHANGED exceptCodec

----------------------------------------------------------------------------
(* Tag -> reader: Manchester encoder *)

\* data bits are SEC_E whatever the byte
AllZeroDataSymbol(b, j, collision) ==
    IF collision THEN SEC_COLL ELSE SEC_E

\* the symbol for data bit j of byte b, LSB first
TagDataSymbol(b, j, collision) ==
    IF collision THEN SEC_COLL
    ELSE IF Bit(b, j) = 1 THEN SEC_D ELSE SEC_E

\* the symbol after the eight data bits of byte i (0-based)
TagParitySymbol(par, i, collision) ==
    IF collision THEN SEC_COLL
    ELSE IF ParityBitOf(par, i) = 1 THEN SEC_D ELSE SEC_E

\* CodeIso14443aAsTagPar: ToSend is the correction byte, the start bit,
\* nine symbols per byte and the stop bit
CodeIso14443aAsTagPar(cmd, par, collision) ==
    <<CorrectionByte, SEC_D>>
    \o [k \in 1..(9 * Len(cmd)) |->
          LET i == (k - 1) \div 9
              j == (k - 1) % 9
          IN IF j < 8 THEN TagDataSymbol(cmd[i + 1], j, collision)
             ELSE TagParitySymbol(par, i, collision)]
    \o <<SEC_F>>

CodeIso14443aAsTagEx(cmd, collision) ==
    CodeIso14443aAsTagPar(cmd, GetParity(cmd), collision)

CodeIso14443aAsTag(cmd) == CodeIso14443aAsTagEx(cmd, FALSE)

\* EmSendCmd14443aRaw: the bytes clocked out, from index 0 when the
\* correction is needed and from index 1 when not, SEC_F before and after
EmSendCmd14443aRaw(resp, correction_needed) ==
    <<SEC_F>>
    \o (IF correction_needed THEN resp ELSE Tail(resp))
    \o <<SEC_F, SEC_F>>

----------------------------------------------------------------------------
(* Tag -> reader: Manchester decoder *)

Mod_Manchester_LUT(n) == n \in {7, 11, 13, 14, 15}

IsManchesterModulationNibble1(b) == Mod_Manchester_LUT((b \div 16) % 16)

IsManchesterModulationNibble2(b) == Mod_Manchester_LUT(b % 16)

\* Demod14aInit(d, n, par)
Demod14aInit(n) ==
    [state |-> "UNSYNCD", twoBits |-> 65535, highCnt |-> 0, bitCount |-> 0,
     collisionPos |-> 0, syncBit |-> 65535, parityBits |-> 0,
     parityLen |-> 0, shiftReg |-> 0, samples |-> 0, len |-> 0,
     output |-> <<>>, parity |-> <<>>, output_len |-> n]

\* Demod14aReset; output and parity hold the bytes written since the reset
Demod14aReset(d) == Demod14aInit(d.output_len)

\* the chain of sync tests on twoBits: masks 0x7700 >> k, patterns 0x7000 >> k
ManchesterSyncBit(t) ==
    LET hit == {k \in 0..7 : And(t, Shr(30464, k)) = Shr(28672, k)}
    IN IF hit = {} THEN 65535
       ELSE 7 - (CHOOSE k \in hit : \A j \in hit : k <= j)

\* Demod.parity[Demod.parityLen++] = Demod.parityBits
StoreDemodParity(d, bits) ==
    [d EXCEPT !.parity = Append(@, bits), !.parityLen = @ + 1]

\* "if we decoded a full byte (including parity)"; full tells when
StoreDemodByte(d, full) ==
    IF ~full THEN d
    ELSE LET v == [d EXCEPT !.output = Append(@, d.shiftReg % 256),
                            !.len = @ + 1,
                            !.parityBits = Or(U8(d.parityBits * 2),
                                              Bit(d.shiftReg, 8)),
                            !.bitCount = 0,
                            !.shiftReg = 0]
         IN IF v.len % 8 = 0
            THEN [StoreDemodParity(v, v.parityBits) EXCEPT !.parityBits = 0]
            ELSE v

\* no modulation in both halves: end of communication
ManchesterEndOfCommunication(d) ==
    IF d.bitCount > 0
    THEN LET sr == Shr(d.shiftReg, 9 - d.bitCount)
             n == d.len + 1
             pb == U8(U8(d.parityBits * 2) * Pow2(8 - (n % 8)))
         IN [demod |-> StoreDemodParity(
                          [d EXCEPT !.shiftReg = sr,
                                    !.output = Append(@, sr % 256),
                                    !.len = n, !.parityBits = pb], pb),
             done |-> TRUE]
    ELSE LET w == IF d.len % 8 # 0
                  THEN LET pb == U8(d.parityBits * Pow2(8 - (d.len % 8)))
                       IN StoreDemodParity([d EXCEPT !.parityBits = pb], pb)
                  ELSE d
         IN IF w.len # 0 THEN [demod |-> w, done |-> TRUE]
            ELSE [demod |-> Demod14aReset(w), done |-> FALSE]

\* ManchesterDecoding(bit, offset, non_real_time): the decoder after the
\* sample and the value returned
ManchesterDecoding(d0, bit, offset) ==
    IF d0.len = d0.output_len
    THEN LET pb == U8(d0.parityBits * Pow2(8 - (d0.len % 8)))
         IN [demod |-> StoreDemodParity([d0 EXCEPT !.parityBits = pb], pb),
             done |-> TRUE]
    ELSE
    LET d == [d0 EXCEPT !.twoBits = U16(@ * 256) + bit]
        win == Shr(d.twoBits, d.syncBit) % 256
    IN IF d.state = "UNSYNCD"
       THEN IF d.highCnt < 2
            THEN [demod |-> [d EXCEPT !.highCnt =
                                        IF d.twoBits = 0 THEN @ + 1 ELSE 0],
                  done |-> FALSE]
            ELSE LET sb == ManchesterSyncBit(d.twoBits)
                 IN [demod |-> IF sb # 65535
                               THEN [d EXCEPT !.syncBit = sb,
                                              !.bitCount = offset,
                                              !.state = "MANCHESTER_DATA"]
                               ELSE [d EXCEPT !.syncBit = 65535],
                     done |-> FALSE]
       ELSE IF IsManchesterModulationNibble1(win)
       THEN LET c == IF IsManchesterModulationNibble2(win) /\ d.collisionPos = 0
                     THEN [d EXCEPT !.collisionPos = U16(d.len * 8 + d.bitCount)]
                     ELSE d
                e == [c EXCEPT !.bitCount = @ + 1,
                               !.shiftReg = Or(Shr(@, 1), 256)]
            IN [demod |-> StoreDemodByte(e, e.bitCount = 9), done |-> FALSE]
       ELSE IF IsManchesterModulationNibble2(win)
       THEN LET e == [d EXCEPT !.bitCount = @ + 1, !.shiftReg = Shr(@, 1)]
            IN [demod |-> StoreDemodByte(e, e.bitCount >= 9), done |-> FALSE]
       ELSE ManchesterEndOfCommunication(d)

----------------------------------------------------------------------------
(* Manchester round trip: the encoder's stream fed to the decoder *)

\* SEC_F bytes of unmodulated field before the tag answers
TagLeadIns == {3, 4}

\* the frames a tag sends: whole bytes with the parity GetParity computes
TagFrames ==
    {ReaderFrame(c, 8 * Len(c), GetParity(c), TRUE) :
        c \in UNION {ByteStrings(n) : n \in 1..MaxFrameBytes} \cup {LongFrame}}

DemodInit == Demod = Demod14aInit(ReceiveBufLen)

\* the bit positions a partial answer starts at
AnswerOffsets == {0, 3, 7}

\* the symbols of the answer at which a second tag modulates the other half
CollisionMasks == {{}, {1}, {2}, {9}, {10}, {1, 5}, {18}, 1..81}

\* the data and parity symbols of a frame, between start and stop bit
AnswerSymbols(cmd, collision) ==
    SubSeq(CodeIso14443aAsTagEx(cmd, collision), 3, 2 + 9 * Len(cmd))

\* two tags answering at once: the load modulation of both adds up
Superpose(a, b) ==
    [k \in 1..MAX(Len(a), Len(b)) |->
        Or(IF k <= Len(a) THEN a[k] ELSE SEC_F,
           IF k <= Len(b) THEN b[k] ELSE SEC_F)]

\* the ToSend buffer around the symbols: correction byte, start and stop bit
LineFrame(stream) == <<CorrectionByte, SEC_D>> \o stream \o <<SEC_F>>

\* the tag encodes and sends a frame, from bit o of its first byte on and
\* with a second tag colliding at the masked symbols; the reader starts
\* GetIso14443aAnswerFromTag with that offset
TagSends ==
    /\ air = <<>>
    /\ sent = NoFrame
    /\ \E f \in TagFrames, lead \in TagLeadIns, corr \in BOOLEAN,
          o \in AnswerOffsets, mask \in CollisionMasks :
        LET own == AnswerSymbols(f.cmd, FALSE)
            all == Superpose(own, [k \in 1..Len(own) |->
                                      IF k \in mask THEN SEC_COLL ELSE SEC_F])
            stream == SubSeq(all, o + 1, Len(all))
        IN /\ air' = Repeat(SEC_F, lead)
                       \o EmSendCmd14443aRaw(LineFrame(stream), corr)
           /\ sent' = f
           /\ line' = [stream |-> stream, offset |-> o]
    /\ Demod' = Demod14aInit(ReceiveBufLen)
    /\ rxCount' = 0
    /\ rxFrame' = NoRx
    /\ UNCHANGED Uart
    /\ UNCHANGED exceptCodec

\* one sample goes through ManchesterDecoding; on completion the caller
\* takes the frame and the decoder is reset for the next reception
ManchesterFeed ==
    /\ air # <<>>
    /\ LET r == ManchesterDecoding(Demod, Head(air), line.offset) IN
        /\ air' = Tail(air)
        /\ IF r.done
           THEN /\ rxCount' = rxCount + 1
                /\ rxFrame' = [cmd |-> r.demod.output, par |-> r.demod.parity,
                               len |-> r.demod.len,
                               bitCount |-> r.demod.bitCount,
                               collisionPos |-> r.demod.collisionPos]
                /\ Demod' = Demod14aReset(r.demod)
           ELSE /\ Demod' = r.demod
                /\ UNCHANGED <<rxCount, rxFrame>>
    /\ UNCHANGED <<sent, Uart, line>>
    /\ UNCHANGED exceptCodec

\* the receive call returned and its caller has consumed the frame; the next
\* reception starts from freshly initialised decoders
FrameTaken ==
    /\ air = <<>>
    /\ sent # NoFrame
    /\ Uart' = Uart14aInit(ReceiveBufLen)
    /\ Demod' = Demod14aInit(ReceiveBufLen)
    /\ air' = <<>>
    /\ sent' = NoFrame
    /\ rxCount' = 0
    /\ rxFrame' = NoRx
    /\ line' = NoLine
    /\ UNCHANGED exceptCodec

\* GetIso14443aAnswerFromTag in closed form: what ManchesterDecoding leaves
\* in the receive buffer, Demod.len and Demod.collisionPos once the symbols
\* of an answer went through it.  Symbol j lands at bit (offset + j - 1) % 9
\* of byte (offset + j - 1) \div 9, bit 8 being the parity; a collision
\* decodes as 1 and is recorded only while collisionPos is still 0
ReceiveAnswer(stream, offset) ==
    LET total == offset + Len(stream)
        len == (total \div 9) + (IF total % 9 > 0 THEN 1 ELSE 0)
        one(s) == /\ s >= offset
                  /\ s < total
                  /\ IsManchesterModulationNibble1(stream[s - offset + 1])
        pos(j) == 8 * ((offset + j - 1) \div 9) + ((offset + j - 1) % 9)
        hits == {j \in 1..Len(stream) :
                    /\ IsManchesterModulationNibble1(stream[j])
                    /\ IsManchesterModulationNibble2(stream[j])
                    /\ pos(j) # 0}
    IN [cmd |-> [k \in 1..len |->
                    LET v[q \in 0..8] ==
                          IF q = 8 THEN 0
                          ELSE (IF one(9 * (k - 1) + q) THEN Pow2(q) ELSE 0)
                               + v[q + 1]
                    IN v[0]],
        len |-> len,
        collisionPos |->
            IF hits = {} THEN 0
            ELSE pos(CHOOSE j \in hits : \A i \in hits : j <= i)]

----------------------------------------------------------------------------
(* Card emulation: SimulateIso14443aInit and the selection part of the
   SimulateIso14443aTag dispatch *)

\* command bytes as the sources use them
ISO14443A_CMD_REQA == 38

ISO14443A_CMD_WUPA == 82

ISO14443A_CMD_ANTICOLL_OR_SELECT == 147

ISO14443A_CMD_ANTICOLL_OR_SELECT_2 == 149

ISO14443A_CMD_ANTICOLL_OR_SELECT_3 == 151

ISO14443A_CMD_READBLOCK == 48

ISO14443A_CMD_HALT == 80

ISO14443A_CMD_RATS == 224

MIFARE_SELECT_CT == 136

CARD_NACK_NA == 4

\* b0 ^ b1 ^ b2 ^ b3 of the first four bytes
UidBcc(u) == Xor(Xor(u[1], u[2]), Xor(u[3], u[4]))

\* a five-byte cascade answer: four bytes and their BCC
WithBcc(u) == u \o <<UidBcc(u)>>

Zeros(n) == [k \in 1..n |-> 0]

\* the function's static arrays as they are before its first call; of the
\* three-byte SAK answers and of rATS only the bytes before the CRC are kept
FreshStatics ==
    [rATQA |-> <<0, 0>>,
     rUIDc1 |-> Zeros(5), rUIDc2 |-> Zeros(5), rUIDc3 |-> Zeros(5),
     rSAKc1 |-> 0, rSAKc2 |-> 0, rSAKc3 |-> 0,
     rATS |-> <<6, 117, 128, 96, 2, 0>>]

\* switch (tagType): rATQA[0]
TagTypeATQA0(t) ==
    CASE t \in {1, 4, 11} -> 4
      [] t \in {2, 3, 6, 7, 13} -> 68
      [] t \in {5, 12} -> 1
      [] t = 8 -> 2
      [] t = 9 -> 3
      [] t = 10 -> 66

\* switch (tagType): rATQA[1] where the case assigns it, the static's old
\* value where not
TagTypeATQA1(t, old) ==
    CASE t = 3 -> 3
      [] t = 5 -> 15
      [] t \in {9, 10} -> 0
      [] OTHER -> old

\* switch (tagType): sak
TagTypeSak(t) ==
    CASE t = 1 -> 8
      [] t \in {2, 7, 13} -> 0
      [] t \in {3, 10, 11, 12} -> 32
      [] t = 4 -> 40
      [] t = 5 -> 1
      [] t = 6 -> 9
      [] t = 8 -> 24
      [] t = 9 -> 10

\* switch (tagType): the ATS bytes before the CRC
TagTypeATS(t, old) ==
    CASE t = 3 -> <<6, 117, 119, 129, 2, 128>>
      [] t = 11 -> <<19, 120, 128, 114, 2, 128, 49, 128, 102, 177, 132, 12,
                     1, 110, 1, 131, 0, 144, 0>>
      [] OTHER -> SubSeq(old, 1, 6)

\* SimulateIso14443aInit without ATS in the data: flags is the UID length the
\* flags name (0 for none) and the UID_IN_EMUL flag, emul the eight bytes
\* emlGet reads.  The result tells whether the function returned true, the
\* static arrays after the call, and the UID the answers were built from
SimulateIso14443aInit(prev, tagType, flags, data, emul) ==
    IF tagType \notin 1..13
    THEN [ok |-> FALSE, st |-> prev, uid |-> <<>>, uidlen |-> 0]
    ELSE
    LET sak == TagTypeSak(tagType)
        a0 == TagTypeATQA0(tagType)
        a1 == TagTypeATQA1(tagType, prev.rATQA[2])
        ats == TagTypeATS(tagType, prev.rATS)
        fromEmul == data = Zeros(10) \/ flags.inEmul
        ul == tagType \in {2, 7, 13}
        d == IF ~fromEmul THEN data
             ELSE IF ul
             THEN SubSeq(emul, 1, 3) \o SubSeq(emul, 5, 8) \o SubSeq(data, 8, 10)
             ELSE SubSeq(emul, 1, 4) \o SubSeq(data, 5, 10)
        n == IF ~fromEmul THEN flags.uidlen ELSE IF ul THEN 7 ELSE 4
        s0 == [prev EXCEPT !.rATQA = <<a0, a1>>, !.rATS = ats]
    IN CASE n = 4 ->
              [ok |-> TRUE, uid |-> SubSeq(d, 1, 4), uidlen |-> 4,
               st |-> [s0 EXCEPT
                         !.rUIDc1 = WithBcc(SubSeq(d, 1, 4)),
                         !.rATQA = <<And(a0, 191), a1>>,
                         !.rSAKc1 = IF tagType = 11
                                    THEN And(And(sak, 252), 112)
                                    ELSE And(sak, 251)]]
         [] n = 7 ->
              [ok |-> TRUE, uid |-> SubSeq(d, 1, 7), uidlen |-> 7,
               st |-> [s0 EXCEPT
                         !.rUIDc1 = WithBcc(<<MIFARE_SELECT_CT>> \o SubSeq(d, 1, 3)),
                         !.rUIDc2 = WithBcc(SubSeq(d, 4, 7)),
                         !.rATQA = <<Or(And(a0, 191), 64), a1>>,
                         !.rSAKc1 = 4,
                         !.rSAKc2 = And(sak, 251)]]
         [] n = 10 ->
              [ok |-> TRUE, uid |-> d, uidlen |-> 10,
               st |-> [s0 EXCEPT
                         !.rUIDc1 = WithBcc(<<MIFARE_SELECT_CT>> \o SubSeq(d, 1, 3)),
                         !.rUIDc2 = WithBcc(<<MIFARE_SELECT_CT>> \o SubSeq(d, 4, 6)),
                         !.rUIDc3 = WithBcc(SubSeq(d, 7, 10)),
                         !.rATQA = <<Or(And(a0, 191), 128), a1>>,
                         !.rSAKc1 = 4,
                         !.rSAKc2 = 4,
                         !.rSAKc3 = And(sak, 251)]]
         [] OTHER -> [ok |-> FALSE, st |-> s0, uid |-> <<>>, uidlen |-> 0]

\* a frame on its way to the tag: the bytes before the CRC, the byte count
\* with the CRC, and the bit count
Frame(b, crc) == [b |-> b, len |-> Len(b) + crc, bits |-> 8 * (Len(b) + crc)]

\* a short frame of seven bits
ShortFrame(c) == [b |-> <<c>>, len |-> 1, bits |-> 7]

\* an answer on the air: the data and parity symbols of the bytes before the
\* CRC, and the count of CRC bytes that follow them
NoAnswer == [stream |-> <<>>, crc |-> 0]

TagAnswer(bytes, crc) == [stream |-> AnswerSymbols(bytes, FALSE), crc |-> crc]

\* Code4bitAnswerAsTag: four data symbols, no parity
Code4bitAnswerAsTag(cmd) ==
    [k \in 1..4 |-> IF Bit(cmd, k - 1) = 1 THEN SEC_D ELSE SEC_E]

\* the emulated tag once SimulateIso14443aInit returned true
EmulatedTag(tagType, st) ==
    [tagType |-> tagType, st |-> st, order |-> "NONE", odd_reply |-> TRUE]

\* one pass of the main loop of SimulateIso14443aTag for the commands of the
\* selection: the tag after the command and the answer it sends
SimulateIso14443aTag(tag, f) ==
    LET c0 == f.b[1]
        c1 == IF Len(f.b) >= 2 THEN f.b[2] ELSE 0
        st == tag.st
        reply(bytes, crc) == [tag |-> tag, ans |-> TagAnswer(bytes, crc)]
    IN IF c0 = ISO14443A_CMD_REQA /\ f.len = 1
       THEN [tag |-> [tag EXCEPT !.odd_reply = ~@],
             ans |-> IF ~tag.odd_reply THEN TagAnswer(st.rATQA, 0)
                     ELSE NoAnswer]
       ELSE IF c0 = ISO14443A_CMD_WUPA /\ f.len = 1
       THEN reply(st.rATQA, 0)
       ELSE IF c1 = 32 /\ c0 = ISO14443A_CMD_ANTICOLL_OR_SELECT /\ f.len = 2
       THEN reply(st.rUIDc1, 0)
       ELSE IF c1 = 32 /\ c0 = ISO14443A_CMD_ANTICOLL_OR_SELECT_2 /\ f.len = 2
       THEN reply(st.rUIDc2, 0)
       ELSE IF c1 = 32 /\ c0 = ISO14443A_CMD_ANTICOLL_OR_SELECT_3 /\ f.len = 2
       THEN reply(st.rUIDc3, 0)
       ELSE IF c1 = 112 /\ c0 = ISO14443A_CMD_ANTICOLL_OR_SELECT /\ f.len = 9
       THEN reply(<<st.rSAKc1>>, 2)
       ELSE IF c1 = 112 /\ c0 = ISO14443A_CMD_ANTICOLL_OR_SELECT_2 /\ f.len = 9
       THEN reply(<<st.rSAKc2>>, 2)
       ELSE IF c1 = 112 /\ c0 = ISO14443A_CMD_ANTICOLL_OR_SELECT_3 /\ f.len = 9
       THEN reply(<<st.rSAKc3>>, 2)
       ELSE IF c0 = ISO14443A_CMD_READBLOCK /\ f.len = 4
       THEN IF tag.tagType = 9 /\ c1 = 1
            THEN reply(st.rUIDc1, 0)
            ELSE reply(Zeros(16), 2)
       ELSE IF c0 = ISO14443A_CMD_HALT /\ f.len = 4
       THEN [tag |-> [tag EXCEPT !.order = "HALTED"], ans |-> NoAnswer]
       ELSE IF c0 = ISO14443A_CMD_RATS /\ f.len = 4
       THEN IF tag.tagType \in {1, 2}
            THEN [tag |-> tag,
                  ans |-> [stream |-> Code4bitAnswerAsTag(CARD_NACK_NA),
                           crc |-> 0]]
            ELSE reply(st.rATS, 2)
       ELSE [tag |-> [tag EXCEPT !.order = "NONE"], ans |-> NoAnswer]

----------------------------------------------------------------------------
(* Reader: GetATQA, iso14443a_select_cardEx, iso14443a_fast_select_card *)

\* hf14aconfig as it is by default, and with one field set by the user
DefaultConfig ==
    [forceanticol |-> 0, forcebcc |-> 0, forcecl2 |-> 0, forcecl3 |-> 0,
     forcerats |-> 0]

Configs ==
    {DefaultConfig}
    \cup {[DefaultConfig EXCEPT ![f] = v] :
             f \in {"forceanticol", "forcebcc", "forcecl2", "forcecl3",
                    "forcerats"},
             v \in {1, 2}}

\* UID data handed to the emulation, and the emulator memory emlGet reads
UidData ==
    {<<4, 17, 34, 51, 68, 85, 102, 119, 136, 153>>,
     <<136, 4, 17, 34, 51, 68, 85, 102, 0, 0>>,
     Zeros(10)}

EmulatorMemory == <<222, 173, 190, 239, 1, 2, 3, 4>>

\* the static arrays at the call: fresh, or left by an emulation of a
\* DESFire with a ten-byte UID
PrevStatics ==
    {FreshStatics,
     SimulateIso14443aInit(FreshStatics, 3, [uidlen |-> 10, inEmul |-> FALSE],
                           <<9, 8, 7, 6, 5, 4, 3, 2, 1, 11>>,
                           EmulatorMemory).st}

\* what is in the field: nothing, the emulated tag, or tags that answer
\* anything out of the answer sets below
NoTag == EmulatedTag(0, FreshStatics)

FreeTags ==
    {[kind |-> k, tag |-> NoTag, uid |-> <<>>, uidlen |-> 0] :
        k \in {"free", "fuzz"}}

NothingInField == [kind |-> "none", tag |-> NoTag, uid |-> <<>>, uidlen |-> 0]

\* SimulateIso14443aTag up to its main loop: the emulated tag in the field,
\* or nothing when the initialisation failed
EmulatedTags ==
    {LET r == SimulateIso14443aInit(p, t, [uidlen |-> n, inEmul |-> e],
                                    d, EmulatorMemory)
     IN IF r.ok
        THEN [kind |-> "sim", tag |-> EmulatedTag(t, r.st),
              uid |-> r.uid, uidlen |-> r.uidlen]
        ELSE NothingInField :
     p \in PrevStatics, t \in 1..14, n \in {0, 4, 7, 10},
     e \in BOOLEAN, d \in UidData}

\* answers of the free tags to a request: no answer or an ATQA
AtqaAnswers ==
    {NoAnswer, TagAnswer(<<68, 0>>, 0), TagAnswer(<<3, 0>>, 0),
     TagAnswer(<<32, 0>>, 0)}

\* the cascade answers of single tags: with the cascade tag, without it,
\* with a wrong BCC, and a tag that differs from the second in its last bit
CascadeUid == WithBcc(<<136, 4, 17, 34>>)

PlainUid == WithBcc(<<4, 17, 34, 51>>)

BadBccUid == <<4, 17, 34, 51, 251>>

OtherUid == WithBcc(<<4, 17, 34, 179>>)

\* two tags that differ in the first and in the sixth bit of their UIDs
OddUid == WithBcc(<<5, 17, 34, 51>>)

EvenUid == WithBcc(<<36, 17, 34, 51>>)

\* the symbols on the air when tags answer a cascade request: one tag, or at
\* the first cascade level two tags at once
UidStreams ==
    {AnswerSymbols(u, FALSE) : u \in {CascadeUid, PlainUid}}

UidStreamsFirst ==
    UidStreams
    \cup {AnswerSymbols(u, FALSE) : u \in {BadBccUid, OtherUid}}
    \cup {Superpose(AnswerSymbols(PlainUid, FALSE), AnswerSymbols(u, FALSE)) :
             u \in {OtherUid, CascadeUid}}
    \cup {Superpose(AnswerSymbols(OddUid, FALSE), AnswerSymbols(EvenUid, FALSE))}

\* iso14443a_antifuzz answers every request of the first cascade level, with
\* any number of UID bits in it, with the same five bytes and both halves
\* of every bit modulated (EmSendCmdEx with collision set)
FuzzUid == WithBcc(<<255, 255, 255, 255>>)

UidStreamsFuzz == {AnswerSymbols(PlainUid, FALSE)}

\* the answers to a request with m UID bits: the tags answer with the bits
\* from m on, the fuzzing tag with all of its bits
UidAnswers(kind, level, m) ==
    {NoAnswer}
    \cup {[stream |-> SubSeq(s, m + (m \div 8) + 1, Len(s)), crc |-> 0] :
             s \in IF level # 0 THEN UidStreams
                   ELSE IF kind = "fuzz" THEN UidStreamsFuzz
                   ELSE UidStreamsFirst}
    \cup (IF level = 0 /\ kind = "fuzz"
          THEN {[stream |-> AnswerSymbols(FuzzUid, TRUE), crc |-> 0]}
          ELSE {})

SakAnswers ==
    {NoAnswer, TagAnswer(<<0>>, 2), TagAnswer(<<4>>, 2), TagAnswer(<<32>>, 2)}

AtsAnswers == {NoAnswer, TagAnswer(<<6, 117, 128, 96, 2, 0>>, 2)}

BlockAnswers == {NoAnswer, TagAnswer(WithBcc(<<170, 187, 204, 221>>), 0)}

\* the answers of free tags to frame f
FreeAnswers(kind, f) ==
    LET c0 == f.b[1] IN
    IF f.bits = 7 THEN AtqaAnswers
    ELSE IF c0 = ISO14443A_CMD_READBLOCK THEN BlockAnswers
    ELSE IF c0 = ISO14443A_CMD_RATS THEN AtsAnswers
    ELSE IF f.len = 9 THEN SakAnswers
    ELSE UidAnswers(kind, (c0 - ISO14443A_CMD_ANTICOLL_OR_SELECT) \div 2,
                    f.bits - 16)

\* ReaderReceive / ReaderReceiveOffset: the received bytes before the CRC,
\* the length returned and Demod.collisionPos; air keeps the symbols that
\* were on the line
Receive(ans, offset) ==
    IF ans.stream = <<>>
    THEN [b |-> <<>>, len |-> 0, collisionPos |-> 0, air |-> <<>>]
    ELSE LET r == ReceiveAnswer(ans.stream, offset)
         IN [b |-> r.cmd, len |-> r.len + ans.crc,
             collisionPos |-> r.collisionPos, air |-> ans.stream]

\* the reader sends f and listens at the offset: the environments after and
\* what the reader received
Exchange(e, f, offset) ==
    CASE e.kind = "sim" ->
           LET r == SimulateIso14443aTag(e.tag, f)
           IN {[env |-> [e EXCEPT !.tag = r.tag],
                resp |-> Receive(r.ans, offset)]}
      [] e.kind \in {"free", "fuzz"} ->
           {[env |-> e, resp |-> Receive(a, offset)] :
               a \in FreeAnswers(e.kind, f)}
      [] OTHER -> {[env |-> e, resp |-> Receive(NoAnswer, offset)]}

\* the UID a caller hands over when it selects without anticollision
UidPtrs ==
    {<<4, 17, 34, 51, 68, 85, 102, 119, 136, 153>>,
     <<136, 4, 17, 34, 51, 68, 85, 102, 0, 0>>}

\* what a read past the end of the caller's ten UID bytes may find
OverReadBytes == {0, 165}

NoResp == [b |-> <<>>, len |-> 0, collisionPos |-> 0, air |-> <<>>]

\* iso14a_card_select_t without the ATS bytes
NoCard ==
    [uid |-> Zeros(10), uidlen |-> 0, atqa |-> <<0, 0>>, sak |-> 0,
     ats_len |-> 0]

\* the reader between calls
RdIdle ==
    [pc |-> "idle", fn |-> "none", cfg |-> DefaultConfig,
     anticollision |-> TRUE, num_cascades |-> 1, no_rats |-> FALSE,
     force_rats |-> FALSE, uid_ptr |-> Zeros(10), card |-> NoCard,
     cascade_level |-> 0, do_cascade |-> TRUE, uid_resp |-> Zeros(5),
     uid_resp_bits |-> 0, offset |-> 0, resp |-> NoResp, sak |-> 0,
     ret |-> -1, tx |-> Frame(<<>>, 0), txCount |-> 0]

Out(r, e) == [rd |-> r, env |-> e]

\* return v
Ret(r, v) == [r EXCEPT !.pc = "done", !.ret = v]

\* a write or read outside an array: what happens next is not defined
Undefined(r) == [r EXCEPT !.pc = "undefined"]

\* resp[i], 0-based; bytes that were not received read as the zeros the
\* buffer starts with
ByteAt(b, i) == IF i < Len(b) THEN b[i + 1] ELSE 0

\* ReaderTransmit and ReaderReceive: every way the exchange can end
TxRx(r, e, f, offset) ==
    {Out([r EXCEPT !.tx = f, !.txCount = @ + 1, !.resp = x.resp], x.env) :
        x \in Exchange(e, f, offset)}

\* GetATQA with the default polling frame
GetATQA(r, e) == TxRx(r, e, ShortFrame(ISO14443A_CMD_WUPA), 0)

\* every cascade level sends the select code of the first
SelByteFirst(level) == ISO14443A_CMD_ANTICOLL_OR_SELECT

\* sel_all[0] = sel_uid[0] = 0x93 + cascade_level * 2
SelByte(level) == U8(ISO14443A_CMD_ANTICOLL_OR_SELECT + level * 2)

\* the loops that add response bits [from, to) to uid_resp at bit n:
\* uid_resp[n / 8] |= UIDbit << (n % 8), n++
AddBits(u, n, b, from, to) ==
    [k \in 1..5 |->
        LET v[q \in 0..8] ==
              IF q = 8 THEN 0
              ELSE LET dest == 8 * (k - 1) + q
                       i == from + (dest - n)
                       set == \/ Bit(u[k], q) = 1
                              \/ /\ dest >= n
                                 /\ i < to
                                 /\ Bit(ByteAt(b, i \div 8), i % 8) = 1
                   IN (IF set THEN Pow2(q) ELSE 0) + v[q + 1]
        IN v[0]]

\* uid_resp[n / 8] |= 1 << (n % 8)
SetBit(u, n) == [u EXCEPT ![n \div 8 + 1] = Or(@, Pow2(n % 8))]

\* sel_uid[1] = ((2 + uid_resp_bits / 8) << 4) | (uid_resp_bits & 0x07)
Nvb(n) == Or(U8((2 + n \div 8) * 16), n % 8)

\* dst with src copied to dst + at, as far as dst reaches
Overlay(dst, at, src) ==
    [k \in 1..Len(dst) |->
        IF k > at /\ k <= at + Len(src) THEN src[k - at] ELSE dst[k]]

\* the checks after GetATQA: FM11RF005, proprietary anticollision
AfterAtqa(r0) ==
    LET atqa == <<ByteAt(r0.resp.b, 0), ByteAt(r0.resp.b, 1)>>
        r == [r0 EXCEPT !.card.atqa = atqa,
                        !.uid_ptr = IF r0.anticollision THEN Zeros(10) ELSE @]
    IN IF atqa[2] = 0 /\ atqa[1] \in {3, 5}
       THEN [r0 EXCEPT !.card.atqa = atqa, !.pc = "fudan"]
       ELSE IF r.cfg.forceanticol = 0 /\ And(atqa[1], 31) = 0 THEN Ret(r, 3)
       ELSE IF r.cfg.forceanticol = 2 THEN Ret(r, 3)
       ELSE [r EXCEPT !.pc = "cascade", !.cascade_level = 0,
                      !.do_cascade = TRUE]

\* RATS for every tag whose SAK announces ISO 14443-4, whatever was asked for
AfterCascadeSakOnly(r0) ==
    LET r == [r0 EXCEPT !.card.sak = r0.sak]
    IN IF And(r.sak, 32) = 0 THEN Ret(r, 2) ELSE [r EXCEPT !.pc = "rats"]

\* the RATS decision after the cascade loop
AfterCascade(r0) ==
    LET r == [r0 EXCEPT !.card.sak = r0.sak]
        iso4 == And(r.sak, 32) # 0
    IN IF r.cfg.forcerats = 0 /\ ~r.force_rats /\ ~iso4 THEN Ret(r, 2)
       ELSE IF r.cfg.forcerats = 2 /\ ~r.force_rats THEN Ret(r, 2)
       ELSE IF r.no_rats THEN Ret(r, 1)
       ELSE [r EXCEPT !.pc = "rats"]

SelectInit ==
    /\ rd = RdIdle
    /\ env = NothingInField

\* the arguments of a call
CallArgs(ac, nc, up, nr, fr) ==
    [anticollision |-> ac, num_cascades |-> nc, uid_ptr |-> up,
     no_rats |-> nr, force_rats |-> fr]

\* with anticollision, or with the UID and the number of cascade levels from
\* the caller
ArgsAnticollision ==
    {CallArgs(TRUE, 1, Zeros(10), nr, fr) : nr \in BOOLEAN, fr \in BOOLEAN}

ArgsKnownUid ==
    {CallArgs(FALSE, nc, up, nr, fr) :
        nc \in 1..3, up \in UidPtrs, nr \in BOOLEAN, fr \in BOOLEAN}

\* the calls made: everything under the default configuration, the forcerats
\* settings with every RATS argument, the other settings with anticollision
\* and the default RATS arguments on free tags
Calls ==
    [env : EmulatedTags \cup FreeTags, cfg : {DefaultConfig},
     args : ArgsAnticollision \cup ArgsKnownUid]
    \cup [env : FreeTags,
          cfg : {[DefaultConfig EXCEPT !.forcerats = v] : v \in {1, 2}},
          args : ArgsAnticollision]
    \cup [env : FreeTags, cfg : Configs,
          args : {CallArgs(TRUE, 1, Zeros(10), FALSE, FALSE)}]

\* iso14443a_select_cardEx up to the cascade loop, called with p_card and
\* uid_ptr for whatever is in the field
iso14443a_select_cardEx ==
    /\ rd.pc = "idle"
    /\ \E c \in Calls :
        \E o \in GetATQA([RdIdle EXCEPT !.fn = "select", !.cfg = c.cfg,
                             !.anticollision = c.args.anticollision,
                             !.num_cascades = c.args.num_cascades,
                             !.uid_ptr = c.args.uid_ptr,
                             !.no_rats = c.args.no_rats,
                             !.force_rats = c.args.force_rats], c.env) :
            /\ rd' = IF o.rd.resp.len = 0 THEN Ret(o.rd, 0)
                     ELSE AfterAtqa(o.rd)
            /\ env' = o.env
    /\ UNCHANGED exceptSel

\* the three exchanges with a FM11RF005: read block 1, wake up twice
FudanOutcomes(r, e) ==
    UNION {
      IF o1.rd.resp.len = 0 THEN {Out(Ret(o1.rd, 0), o1.env)}
      ELSE LET r1 == [o1.rd EXCEPT !.card.uid =
                         Overlay(@, 0, [k \in 1..4 |->
                                          ByteAt(o1.rd.resp.b, k - 1)])]
           IN UNION {
                IF o2.rd.resp.len = 0 THEN {Out(Ret(o2.rd, 0), o2.env)}
                ELSE {IF o3.rd.resp.len = 0 THEN Out(Ret(o3.rd, 0), o3.env)
                      ELSE Out(Ret([o3.rd EXCEPT !.card.sak = 10,
                                                 !.card.uidlen = 4], 1),
                               o3.env) :
                         o3 \in GetATQA(o2.rd, o2.env)} :
                o2 \in GetATQA(r1, o1.env)} :
      o1 \in TxRx(r, e, Frame(<<ISO14443A_CMD_READBLOCK, 1>>, 2), 0)}

SelectFudan ==
    /\ rd.pc = "fudan"
    /\ \E o \in FudanOutcomes(rd, env) : rd' = o.rd /\ env' = o.env
    /\ UNCHANGED exceptSel

\* top of the cascade loop with anticollision: SELECT_ALL and its answer
SelectAll(o) ==
    LET r == o.rd IN
    IF r.resp.len = 0 THEN Ret(r, 0)
    ELSE IF r.resp.collisionPos # 0
    THEN [r EXCEPT !.pc = "walk", !.uid_resp = Zeros(5),
                   !.uid_resp_bits = 0, !.offset = 0]
    ELSE [r EXCEPT !.pc = "select",
                   !.uid_resp = [k \in 1..5 |-> ByteAt(r.resp.b, k - 1)]]

SelectAnticollision ==
    /\ rd.pc = "cascade"
    /\ rd.anticollision
    /\ \E o \in TxRx(rd, env, Frame(<<SelByte(rd.cascade_level), 32>>, 0), 0) :
        /\ rd' = SelectAll(o)
        /\ env' = o.env
    /\ UNCHANGED exceptSel

\* the bits added after the anti-collision loop: "finally, add the last bits
\* and BCC of the UID"
WalkEnd(r) ==
    LET to == r.resp.len * 8
        n == r.uid_resp_bits + MAX(to - r.offset, 0)
    IN IF n > 40 THEN Undefined(r)
       ELSE [r EXCEPT !.pc = "select",
                      !.uid_resp = AddBits(@, r.uid_resp_bits, r.resp.b,
                                           r.offset, to),
                      !.uid_resp_bits = n]

\* one pass of the anti-collision loop: the valid bits before the collision,
\* a 1 at the collision, the request for the tags that have it; a 1 at bit
\* 40 is stored to uid_resp[5] (with the 1 at bit 39 the copy to sel_uid
\* reads uid_resp[5] into sel_uid[7], a byte that is not sent)
WalkOutcomes(r, e) ==
    LET cp == r.resp.collisionPos
        n1 == r.uid_resp_bits + MAX(cp - r.offset, 0)
        u == SetBit(AddBits(r.uid_resp, r.uid_resp_bits, r.resp.b,
                            r.offset, cp), n1)
        n2 == n1 + 1
        f == [b |-> <<SelByte(r.cascade_level), Nvb(n2)>>
                      \o SubSeq(u, 1, nbytes(n2)),
              len |-> nbytes(16 + n2), bits |-> 16 + n2]
    IN IF n1 >= 40 THEN {Out(Undefined(r), e)}
       ELSE {Out(IF o.rd.resp.len = 0 THEN Ret(o.rd, 0)
                 ELSE IF o.rd.resp.collisionPos # 0 THEN o.rd
                 ELSE WalkEnd(o.rd), o.env) :
                o \in TxRx([r EXCEPT !.uid_resp = u, !.uid_resp_bits = n2,
                                     !.offset = n2 % 8], e, f, n2 % 8)}

SelectWalk ==
    /\ rd.pc = "walk"
    /\ \E o \in WalkOutcomes(rd, env) : rd' = o.rd /\ env' = o.env
    /\ UNCHANGED exceptSel

\* after the SAK: do_cascade with the forcecl2 and forcecl3 overrides, the
\* UID bytes of this level stored at cascade_level * 3
AfterSak(r0) ==
    LET sak == ByteAt(r0.resp.b, 0)
        level == r0.cascade_level
        auto == And(sak, 4) > 0
        force == IF level = 0 THEN r0.cfg.forcecl2
                 ELSE IF level = 1 THEN r0.cfg.forcecl3 ELSE 0
        dc == IF force = 2 THEN FALSE ELSE IF force = 1 THEN TRUE ELSE auto
        u == r0.uid_resp
        part == IF dc THEN <<u[2], u[3], u[4]>> ELSE SubSeq(u, 1, 4)
        r == [r0 EXCEPT
                !.sak = sak, !.do_cascade = dc,
                !.uid_resp = IF dc THEN <<u[2], u[3], u[4], u[4], u[5]>> ELSE u,
                !.uid_ptr = IF r0.anticollision
                            THEN Overlay(@, level * 3, part) ELSE @,
                !.card.uid = Overlay(@, level * 3, part),
                !.card.uidlen = U8(@ + Len(part))]
    IN IF level * 3 + Len(part) > 10
       THEN {Undefined(r),
             Undefined([r EXCEPT !.card.uidlen =
                                    U8(part[11 - level * 3] + Len(part))])}
       ELSE IF dc
       THEN {[r EXCEPT !.cascade_level = level + 1, !.pc = "cascade"]}
       ELSE {AfterCascade(r)}

\* the card's BCC goes out as it came
CardBcc(r) == r.uid_resp[5]

\* sel_uid[6]: with anticollision the BCC received, replaced by the XOR of
\* the four UID bytes when it differs and forcebcc is 1; without, the XOR
SelectBcc(r) ==
    LET bcc == UidBcc(r.uid_resp) IN
    IF r.anticollision /\ r.uid_resp[5] # bcc /\ r.cfg.forcebcc # 1
    THEN r.uid_resp[5] ELSE bcc

\* the SELECT of one cascade level for the UID in uid_resp
SelectOutcomes(r, e) ==
    LET u == r.uid_resp
        bcc == UidBcc(u)
        f == Frame(<<SelByte(r.cascade_level), 112>> \o SubSeq(u, 1, 4)
                   \o <<SelectBcc(r)>>, 2)
    IN IF r.anticollision /\ u[5] # bcc /\ r.cfg.forcebcc = 0
       THEN {Out(Ret(r, 0), e)}
       ELSE UNION {IF o.rd.resp.len = 0 THEN {Out(Ret(o.rd, 0), o.env)}
                   ELSE {Out(x, o.env) : x \in AfterSak(o.rd)} :
                      o \in TxRx(r, e, f, 0)}

SelectUid ==
    /\ rd.pc = "select"
    /\ \E o \in SelectOutcomes(rd, env) : rd' = o.rd /\ env' = o.env
    /\ UNCHANGED exceptSel

\* uid_ptr[i], 0-based, with x past the end of the caller's ten bytes
UidPtrAt(up, i, x) == IF i < 10 THEN up[i + 1] ELSE x

\* top of the cascade loop without anticollision: the UID comes from the
\* caller, the cascade tag in front while further levels follow
SelectKnownUid ==
    /\ rd.pc = "cascade"
    /\ ~rd.anticollision
    /\ \E x \in OverReadBytes :
        LET at == rd.cascade_level * 3
            u == IF rd.cascade_level < rd.num_cascades - 1
                 THEN <<MIFARE_SELECT_CT>>
                      \o [k \in 1..3 |-> UidPtrAt(rd.uid_ptr, at + k - 1, x)]
                      \o <<0>>
                 ELSE [k \in 1..4 |-> UidPtrAt(rd.uid_ptr, at + k - 1, x)]
                      \o <<0>>
        IN \E o \in SelectOutcomes([rd EXCEPT !.uid_resp = u], env) :
              rd' = o.rd /\ env' = o.env
    /\ UNCHANGED exceptSel

\* RATS and the answer to select
RatsOutcome(r) ==
    IF r.resp.len = 0 THEN Ret(r, 0)
    ELSE Ret([r EXCEPT !.card.ats_len = U8(r.resp.len)], 1)

SelectRats ==
    /\ rd.pc = "rats"
    /\ \E o \in TxRx(rd, env, Frame(<<ISO14443A_CMD_RATS, 128>>, 2), 0) :
        /\ rd' = RatsOutcome(o.rd)
        /\ env' = o.env
    /\ UNCHANGED exceptSel

\* cascade levels followed in one fast selection
MaxFastLevels == 5

\* the calls of the fast selection: the UID and the number of cascade levels
\* from the caller, any tag in the field
FastCalls ==
    [env : EmulatedTags \cup FreeTags, uid_ptr : UidPtrs, num_cascades : 1..3]

\* iso14443a_fast_select_card up to its loop: sak = 0x04, cascade_level = 1
iso14443a_fast_select_card ==
    /\ rd.pc = "idle"
    /\ \E c \in FastCalls :
        \E o \in GetATQA([RdIdle EXCEPT !.fn = "fast", !.anticollision = FALSE,
                             !.uid_ptr = c.uid_ptr,
                             !.num_cascades = c.num_cascades], c.env) :
            /\ rd' = IF o.rd.resp.len = 0 THEN Ret(o.rd, 0)
                     ELSE [o.rd EXCEPT !.pc = "fast", !.sak = 4,
                                       !.cascade_level = 1]
            /\ env' = o.env
    /\ UNCHANGED exceptSel

\* the answer to the SELECT in the three bytes of resp: the loop goes on while
\* the SAK has the cascade bit
FastAfterSak(r) ==
    LET sak == ByteAt(r.resp.b, 0) IN
    IF MIN(r.resp.len, 3) # 3 THEN Ret(r, 0)
    ELSE IF And(sak, 4) # 0
    THEN [r EXCEPT !.sak = sak, !.cascade_level = @ + 1]
    ELSE Ret([r EXCEPT !.sak = sak], 1)

\* one pass of the loop of iso14443a_fast_select_card
FastSelectLevel ==
    /\ rd.pc = "fast"
    /\ rd.cascade_level <= MaxFastLevels
    /\ \E x \in OverReadBytes :
        LET at == (rd.cascade_level - 1) * 3
            u == IF rd.cascade_level < rd.num_cascades
                 THEN <<MIFARE_SELECT_CT>>
                      \o [k \in 1..3 |-> UidPtrAt(rd.uid_ptr, at + k - 1, x)]
                 ELSE [k \in 1..4 |-> UidPtrAt(rd.uid_ptr, at + k - 1, x)]
            f == Frame(<<SelByte(rd.cascade_level - 1), 112>> \o u
                       \o <<UidBcc(u)>>, 2)
        IN \E o \in TxRx(rd, env, f, 0) :
              /\ rd' = FastAfterSak(o.rd)
              /\ env' = o.env
    /\ UNCHANGED exceptSel

\* the caller takes the result; the next call starts from scratch
SelectReturn ==
    /\ rd.pc \in {"done", "undefined"}
    /\ rd' = RdIdle
    /\ env' = NothingInField
    /\ UNCHANGED exceptSel

----------------------------------------------------------------------------
(* Sniffer: one DMA buffer, both decoders *)

\* samples taken in one run of the sniffer
MaxSniffSamples == 15

\* one DMA byte: reader signal in the high nibble (carrier or a pause),
\* tag signal in the low nibble (load modulation or none)
SniffSamples == {240, 48, 255}

\* the trigger parameter: bit 0 "card just sent", bit 1 "reader sent 7 bits"
SniffParams == {0, 1, 2}

\* SniffIso14443a's locals between two passes of its loop; fed* and *At* record
\* what the last pass did to the decoders, frames which decoder finished a
\* frame in it (1 the reader's, 2 the tag's) and traced which frame LogTrace
\* was called with
SniffIdle ==
    [running |-> FALSE, param |-> 0, triggered |-> FALSE,
     previous_data |-> 0, rx_samples |-> 0,
     ReaderIsActive |-> FALSE, TagIsActive |-> FALSE,
     fedReader |-> FALSE, fedTag |-> FALSE,
     tagStateAtReaderFeed |-> "UNSYNCD", readerStateAtTagFeed |-> "UNSYNCD",
     frames |-> 0, traced |-> 0]

SniffInit == sniff = SniffIdle

\* SniffIso14443a up to its loop: locals initialised, decoders set up
SniffIso14443a ==
    /\ ~sniff.running
    /\ \E param \in SniffParams :
          sniff' = [SniffIdle EXCEPT !.running = TRUE, !.param = param,
                                     !.triggered = (And(param, 3) = 0)]
    /\ Uart' = Uart14aInit(ReceiveBufLen)
    /\ Demod' = Demod14aInit(ReceiveBufLen)
    /\ UNCHANGED exceptSniff

\* "no need to try decoding reader data if the tag is sending"
FeedReaderAlways(s) == TRUE

FeedReader(s) == s.TagIsActive = FALSE

\* "no need to try decoding tag data if the reader is sending"
FeedTag(s) == s.ReaderIsActive = FALSE

\* the reader half of a pass: MillerDecoding on the two high nibbles
SniffReaderHalf(s, u, d, data) ==
    IF ~FeedReader(s)
    THEN [s |-> [s EXCEPT !.fedReader = FALSE], u |-> u, d |-> d]
    ELSE LET readerdata == Or(And(s.previous_data, 240), Shr(data, 4))
             m == MillerDecoding(u, readerdata)
             trig == \/ s.triggered
                     \/ /\ m.done
                        /\ And(s.param, 2) # 0
                        /\ m.uart.len = 1
                        /\ m.uart.bitCount = 7
             u1 == IF m.done THEN Uart14aReset(m.uart) ELSE m.uart
             d1 == IF m.done THEN Demod14aReset(d) ELSE d
         IN [s |-> [s EXCEPT !.fedReader = TRUE,
                             !.tagStateAtReaderFeed = d.state,
                             !.triggered = trig,
                             !.frames = IF m.done THEN 1 ELSE @,
                             !.traced = IF m.done /\ trig THEN 1 ELSE @,
                             !.ReaderIsActive = (u1.state # "UNSYNCD")],
             u |-> u1, d |-> d1]

\* the tag half of a pass: ManchesterDecoding on the two low nibbles
SniffTagHalf(s, u, d, data) ==
    IF ~FeedTag(s)
    THEN [s |-> [s EXCEPT !.fedTag = FALSE], u |-> u, d |-> d]
    ELSE LET tagdata == Or(U8(s.previous_data * 16), And(data, 15))
             m == ManchesterDecoding(d, tagdata, 0)
             trig == s.triggered \/ (m.done /\ And(s.param, 1) # 0)
             d1 == IF m.done THEN Demod14aReset(m.demod) ELSE m.demod
             u1 == IF m.done THEN Uart14aReset(u) ELSE u
         IN [s |-> [s EXCEPT !.fedTag = TRUE,
                             !.readerStateAtTagFeed = u.state,
                             !.triggered = trig,
                             !.frames = IF m.done THEN 2 ELSE @,
                             !.traced = IF m.done THEN 2 ELSE @,
                             !.TagIsActive = (d1.state # "UNSYNCD")],
             u |-> u1, d |-> d1]

\* the record of the last pass is cleared when a pass begins
SniffPass(s) ==
    [s EXCEPT !.fedReader = FALSE, !.fedTag = FALSE, !.frames = 0,
              !.traced = 0]

\* one pass of the loop over the DMA buffer
SniffSample ==
    /\ sniff.running
    /\ sniff.rx_samples < MaxSniffSamples
    /\ \E data \in SniffSamples :
          \E r \in {IF sniff.rx_samples % 2 = 1
                    THEN SniffReaderHalf(SniffPass(sniff), Uart, Demod, data)
                    ELSE [s |-> SniffPass(sniff), u |-> Uart, d |-> Demod]} :
             \E t \in {IF sniff.rx_samples % 2 = 1
                       THEN SniffTagHalf(r.s, r.u, r.d, data)
                       ELSE r} :
                /\ sniff' = [t.s EXCEPT !.previous_data = data,
                                        !.rx_samples = @ + 1]
                /\ Uart' = t.u
                /\ Demod' = t.d
    /\ UNCHANGED exceptSniff

\* the button is pressed or the buffer ends: the sniffer returns
SniffStop ==
    /\ sniff.running
    /\ sniff' = SniffIdle
    /\ Uart' = Uart14aInit(ReceiveBufLen)
    /\ Demod' = Demod14aInit(ReceiveBufLen)
    /\ UNCHANGED exceptSniff

----------------------------------------------------------------------------
(* Card emulation: the main loop of SimulateIso14443aTag *)

CARD_ACK == 10

CARD_NACK_IV == 0

CARD_NACK_PA == 1

ISO14443A_CMD_PPS == 208

MIFARE_ULEV1_FASTREAD == 58

MIFARE_ULC_WRITE == 162

MIFARE_ULC_COMP_WRITE == 160

MIFARE_ULEV1_READSIG == 60

MIFARE_ULEV1_READ_CNT == 57

MIFARE_ULEV1_INCR_CNT == 165

MIFARE_ULEV1_CHECKTEAR == 62

MIFARE_ULEV1_VERSION == 96

MFDES_GET_VERSION == 96

MIFARE_AUTH_KEYA == 96

MIFARE_AUTH_KEYB == 97

MIFARE_ULC_AUTH_1 == 26

MIFARE_ULC_AUTH_2 == 175

MIFARE_ULEV1_AUTH == 27

MIFARE_ULEV1_VCSL == 75

ATTACK_KEY_COUNT == 16

MAX_FRAME_SIZE == 256

\* one byte into the CRC-16 of ISO/IEC 14443-3 type A: polynomial
\* x^16 + x^12 + x^5 + 1, bits reflected
Crc16Update(crc, byte) ==
    LET b1 == Xor(byte, crc % 256)
        b2 == Xor(b1, U8(b1 * 16))
    IN Xor(Xor(Shr(crc, 8), b2 * 256), Xor(b2 * 8, Shr(b2, 4)))

RECURSIVE Crc16From(_, _, _)
\* the register after the bytes from i on; it is evaluated before the next
\* byte goes in
Crc16From(data, i, crc) ==
    IF crc < 0 \/ i > Len(data) THEN crc
    ELSE Crc16From(data, i + 1, Crc16Update(crc, data[i]))

\* the two CRC bytes of data, low byte first; the register starts at 0x6363
Crc14A(data) ==
    LET crc == Crc16From(data, 1, 25443)
    IN <<crc % 256, Shr(crc, 8)>>

\* AddCrc14A: data followed by its CRC
AddCrc14A(data) == data \o Crc14A(data)

\* CheckCrc14A(cmd, len): the last two bytes are the CRC of those before
CheckCrc14A(cmd) ==
    /\ Len(cmd) >= 3
    /\ Crc14A(SubSeq(cmd, 1, Len(cmd) - 2)) = SubSeq(cmd, Len(cmd) - 1, Len(cmd))

\* le24toh: three bytes, least significant first
le24toh(b) == b[1] + 256 * b[2] + 65536 * b[3]

\* htole24
htole24(v) == <<v % 256, Shr(v, 8) % 256, Shr(v, 16) % 256>>

\* emulator memory after the dump header, by page of four bytes; pages never
\* written hold zeros
PageAt(mem, p) == IF p \in DOMAIN mem THEN mem[p] ELSE Zeros(4)

\* emlGet of n bytes from page p on
PagesFrom(mem, p, n) ==
    [k \in 1..n |-> PageAt(mem, p + (k - 1) \div 4)[((k - 1) % 4) + 1]]

\* emlSetMem_xt(data, p + MFU_DUMP_PREFIX_LENGTH / 4, 1, 4)
WritePage(mem, p, d) ==
    [q \in DOMAIN mem \cup {p} |-> IF q = p THEN d ELSE mem[q]]

\* the tag types with four-byte pages: Ultralight, NTAG 215, Ultralight-C
IsUL(t) == t \in {2, 7, 13}

\* *pages = MAX(mfu_header->pages, ...) with a header that names no pages;
\* the caller's pages stays 0 for the other types
TagTypePages(t) ==
    CASE t = 2 -> 15
      [] t = 7 -> 19
      [] t = 13 -> 47
      [] OTHER -> 0

\* the one-time-programmable page as the emulator memory holds it
OtpPage == <<0, 0, 0, 1>>

\* the emulator memory at the start: the UID pages emlGet reads, the OTP page
InitialPages ==
    [p \in {0, 1, 3} |->
        CASE p = 0 -> SubSeq(EmulatorMemory, 1, 4)
          [] p = 1 -> SubSeq(EmulatorMemory, 5, 8)
          [] OTHER -> OtpPage]

\* mfu_em_dump->counter_tearing[i][0..2] for i = 0, 1, 2: the counters 0,
\* 0xFFFFFE and 0x800000, least significant byte first
InitialCounters == <<<<0, 0, 0>>, <<254, 255, 255>>, <<0, 0, 128>>>>

\* counter_tearing[i][3] once SimulateIso14443aInit replaced a zero
TearingFlag == 189

\* nonces_t as far as the capture uses it
EmptySlot ==
    [state |-> "EMPTY", sector |-> 0, keytype |-> 0,
     nr |-> <<0, 0>>, ar |-> <<0, 0>>, nr2 |-> <<0, 0>>, ar2 |-> <<0, 0>>]

\* no record went to the client in this pass
NoRecord == [EmptySlot EXCEPT !.state = "NONE"]

\* prng_successor(GetTickCount(), 32) as four bytes
TagNonce == <<1, 32, 1, 69>>

\* ul_ev1_pwdgenB(useruid) as four bytes
GeneratedPwd == <<170, 85, 170, 85>>

\* the (sector, keytype) pairs the authentications of the model name
AuthPairs == {0, 1} \X {0, 1}

\* the emulator between two passes of its main loop: the locals of
\* SimulateIso14443aTag and the emulator memory, the command of the last pass
\* and what the pass sent to the reader (ans) and to the client (rec); caps
\* and recs count the captured {nr}{ar} frames and the records per pair
EmuOff ==
    [on |-> FALSE, tag |-> NoTag, attack |-> FALSE, pages |-> 0,
     mem |-> InitialPages, counter |-> InitialCounters, wrblock |-> 0,
     cardAUTHSC |-> 0, cardAUTHKEY |-> 255,
     ar_nr_nonces |-> [i \in 1..ATTACK_KEY_COUNT |-> EmptySlot],
     cmdsRecvd |-> 0, cmd |-> <<>>, ans |-> NoAnswer, rec |-> NoRecord,
     ub |-> FALSE,
     caps |-> [p \in AuthPairs |-> 0], recs |-> [p \in AuthPairs |-> 0]]

EmuInit == emu = EmuOff

\* EmSend4bit
EmSend4bit(resp) == [stream |-> Code4bitAnswerAsTag(resp), crc |-> 0]

\* what a pass leaves: the emulator, the answer, the record for the client,
\* and whether the pass went through undefined behaviour
Pass(e, ans) == [e |-> e, ans |-> ans, rec |-> NoRecord, ub |-> FALSE]

SetOrder(e, o) == [e EXCEPT !.tag.order = o]

\* every part of a compatibility write is committed, 16 bytes
CompWriteWholeFrame(e, cmd) ==
    IF CheckCrc14A(cmd)
    THEN Pass([SetOrder(e, "NONE") EXCEPT
                 !.mem = WritePage(WritePage(@, e.wrblock, SubSeq(cmd, 1, 4)),
                                   e.wrblock + 1, SubSeq(cmd, 5, 8))],
              EmSend4bit(CARD_ACK))
    ELSE Pass(SetOrder(e, "NONE"), EmSend4bit(CARD_NACK_PA))

\* MIFARE_ULC_COMP_WRITE part 2: 16 bytes data + 2 bytes crc, only the least
\* significant 4 bytes are written
CompWritePart2(e, cmd) ==
    IF CheckCrc14A(cmd)
    THEN Pass([SetOrder(e, "NONE") EXCEPT
                 !.mem = WritePage(@, e.wrblock, SubSeq(cmd, 1, 4))],
              EmSend4bit(CARD_ACK))
    ELSE Pass(SetOrder(e, "NONE"), EmSend4bit(CARD_NACK_PA))

\* "find which index to use": the last slot of the pair, else the last empty
\* slot, else the first slot, emptied
NonceIndex(e) ==
    LET match == {i \in 1..ATTACK_KEY_COUNT :
                     /\ e.cardAUTHSC = e.ar_nr_nonces[i].sector
                     /\ e.cardAUTHKEY = e.ar_nr_nonces[i].keytype}
        empty == {i \in 1..ATTACK_KEY_COUNT : e.ar_nr_nonces[i].state = "EMPTY"}
        last(S) == CHOOSE i \in S : \A j \in S : j <= i
    IN IF match # {} THEN [index |-> last(match), emptied |-> FALSE]
       ELSE IF empty # {} THEN [index |-> last(empty), emptied |-> FALSE]
       ELSE [index |-> 1, emptied |-> TRUE]

\* bytes_to_num(receivedCmd, 4): most significant byte first; the 32-bit
\* value is kept as its two 16-bit halves, high half first
bytes_to_num(b) == <<b[1] * 256 + b[2], b[3] * 256 + b[4]>>

\* Received {nr} and {ar} (part of authentication)
NrArCapture(e, cmd) ==
    IF ~e.attack THEN Pass(SetOrder(e, "NONE"), NoAnswer)
    ELSE
    LET nr == bytes_to_num(SubSeq(cmd, 1, 4))
        ar == bytes_to_num(SubSeq(cmd, 5, 8))
        ix == NonceIndex(e)
        i == ix.index
        slot == IF ix.emptied
                THEN [e.ar_nr_nonces[i] EXCEPT !.state = "EMPTY"]
                ELSE e.ar_nr_nonces[i]
        pair == <<e.cardAUTHSC, e.cardAUTHKEY>>
        counted == [SetOrder(e, "NONE") EXCEPT
                      !.caps = IF pair \in AuthPairs
                               THEN [@ EXCEPT ![pair] = @ + 1] ELSE @]
    IN IF slot.state = "EMPTY"
       THEN Pass([counted EXCEPT
                    !.ar_nr_nonces[i] =
                        [slot EXCEPT !.sector = e.cardAUTHSC,
                                     !.keytype = e.cardAUTHKEY,
                                     !.nr = nr, !.ar = ar,
                                     !.state = "FIRST"]],
                 NoAnswer)
       ELSE LET second == [slot EXCEPT !.nr2 = nr, !.ar2 = ar,
                                       !.state = "SECOND"]
                rpair == <<second.sector, second.keytype>>
            IN [e |-> [counted EXCEPT
                         !.ar_nr_nonces[i] =
                             [second EXCEPT !.state = "EMPTY", !.sector = 0,
                                            !.keytype = 0],
                         !.recs = IF rpair \in AuthPairs
                                  THEN [@ EXCEPT ![rpair] = @ + 1] ELSE @],
                ans |-> NoAnswer, rec |-> second, ub |-> FALSE]

\* Received a (plain) READ of an Ultralight or NTAG (4 byte blocks)
ReadBlockUL(e, cmd) ==
    LET block == cmd[2]
    IN IF block > e.pages
       THEN Pass(e, EmSend4bit(CARD_NACK_IV))
       ELSE Pass(e, TagAnswer(PagesFrom(e.mem, block, 16), 2))

\* Received a FAST READ (ranged read); len is an int and emdata holds
\* MAX_FRAME_SIZE bytes
FastRead(e, cmd) ==
    LET block1 == cmd[2]
        block2 == cmd[3]
        n == (block2 - block1 + 1) * 4
    IN IF block1 > e.pages
       THEN Pass(e, EmSend4bit(CARD_NACK_IV))
       ELSE IF n < 0 \/ n + 2 > MAX_FRAME_SIZE
       THEN [e |-> e, ans |-> NoAnswer, rec |-> NoRecord, ub |-> TRUE]
       ELSE Pass(e, TagAnswer(PagesFrom(e.mem, block1, n), 2))

\* "OTP sanity check": a bit of the stored page would be cleared
Risky(orig, new) == \E i \in 1..4 : And(orig[i], 255 - new[i]) # 0

\* Received a WRITE: cmd + block + 4 bytes data + 2 bytes crc
WriteUL(e, cmd) ==
    LET block == cmd[2]
        data == SubSeq(cmd, 3, 6)
    IN IF ~CheckCrc14A(cmd) THEN Pass(e, EmSend4bit(CARD_NACK_PA))
       ELSE IF block > e.pages THEN Pass(e, EmSend4bit(CARD_NACK_IV))
       ELSE IF block = 3 /\ Risky(PageAt(e.mem, 3), data)
       THEN Pass(e, EmSend4bit(CARD_NACK_IV))
       ELSE Pass([e EXCEPT !.mem = WritePage(@, block, data)],
                 EmSend4bit(CARD_ACK))

\* MIFARE_ULC_COMP_WRITE part 1: cmd + block + 2 bytes crc
CompWritePart1(e, cmd) ==
    IF ~CheckCrc14A(cmd) THEN Pass(e, EmSend4bit(CARD_NACK_PA))
    ELSE LET w == [e EXCEPT !.wrblock = cmd[2]]
         IN IF w.wrblock > e.pages
            THEN Pass(w, EmSend4bit(CARD_NACK_IV))
            ELSE Pass(SetOrder(w, "EV1_COMP_WRITE"), EmSend4bit(CARD_ACK))

\* Received a READ COUNTER
ReadCnt(e, cmd) ==
    LET index == cmd[2]
    IN IF index > 2 THEN Pass(e, EmSend4bit(CARD_NACK_IV))
       ELSE Pass(e, TagAnswer(e.counter[index + 1], 2))

\* the sum is stored whatever it is, cut to 24 bits
IncrCntWrap(e, cmd) ==
    LET index == cmd[2]
    IN IF index > 2 THEN Pass(e, EmSend4bit(CARD_NACK_IV))
       ELSE LET val == le24toh(e.counter[index + 1])
                       + le24toh(SubSeq(cmd, 3, 5))
            IN Pass([e EXCEPT !.counter[index + 1] = htole24(val)],
                    EmSend4bit(CARD_ACK))

\* Received a INC COUNTER: "if new value + old value is bigger 24bits, fail"
IncrCnt(e, cmd) ==
    LET index == cmd[2]
    IN IF index > 2 THEN Pass(e, EmSend4bit(CARD_NACK_IV))
       ELSE LET val == le24toh(e.counter[index + 1])
                       + le24toh(SubSeq(cmd, 3, 5))
            IN IF val > 16777215
               THEN Pass(e, EmSend4bit(CARD_NACK_NA))
               ELSE Pass([e EXCEPT !.counter[index + 1] = htole24(val)],
                         EmSend4bit(CARD_ACK))

\* Received a CHECK_TEARING_EVENT
CheckTear(e, cmd) ==
    LET index == cmd[2]
    IN IF index > 2 THEN Pass(e, EmSend4bit(CARD_NACK_IV))
       ELSE Pass(e, TagAnswer(<<TearingFlag>>, 2))

\* Received an authentication request: the nonce is sent without CRC
AuthRequest(e, cmd) ==
    Pass([SetOrder(e, "AUTH") EXCEPT !.cardAUTHKEY = cmd[1] - 96,
                                     !.cardAUTHSC = cmd[2] \div 4],
         TagAnswer(TagNonce, 0))

\* ULC authentication part 1 with ulc_part1 set: 0xAF and eight zero bytes
UlcAuth1(e) ==
    Pass(SetOrder(e, "AUTH"), TagAnswer(<<MIFARE_ULC_AUTH_2>> \o Zeros(8), 2))

\* ULC authentication part 2 with ulc_part2 set: the CRC is added to the
\* nine-byte answer and then again to seventeen bytes of the buffer
UlcAuth2(e) ==
    Pass(SetOrder(e, "NONE"),
         TagAnswer(AddCrc14A(Zeros(9)) \o Zeros(6), 2))

\* rPACK as SimulateIso14443aInit read it from the page after the password
rPACK(pages) == SubSeq(PageAt(InitialPages, pages), 1, 2)

\* NTAG / EV-1 password authentication
Ev1Auth(e, cmd) ==
    LET stored == PageAt(e.mem, e.pages - 1)
        pwd == IF stored = Zeros(4) THEN GeneratedPwd ELSE stored
    IN IF SubSeq(cmd, 2, 5) = pwd
       THEN Pass(e, TagAnswer(rPACK(e.pages), 2))
       ELSE Pass(e, EmSend4bit(CARD_NACK_IV))

\* cmd begins with the bytes of pat
StartsWith(cmd, pat) ==
    Len(cmd) >= Len(pat) /\ SubSeq(cmd, 1, Len(pat)) = pat

\* ST25TA512B: "we replay 90 00 for all commands but the read bin and we
\* deny the verify cmd"; the bytes before the CRC
RothultResponse(cmd) ==
    IF StartsWith(cmd, <<2, 162, 176, 0, 0, 29, 81, 105>>)
    THEN <<cmd[1], 0, 27, 209, 1, 23, 84, 2, 122, 104, 162, 52, 203, 208, 226,
           3, 199, 62, 98, 11, 232, 198, 60, 133, 44, 197, 49, 49, 49, 50,
           144, 0>>
    ELSE IF StartsWith(cmd, <<2, 0, 32, 0, 1, 0, 110, 169>>)
    THEN <<cmd[1], 99, 0>>
    ELSE <<cmd[1], 144, 0>>

\* "Check for ISO 14443A-4 compliant commands": dynamic_response_info before
\* the CID is copied in, the empty sequence for a command never seen
DynamicResponse(cmd) ==
    LET c0 == cmd[1]
    IN CASE c0 \in {2, 3} -> <<c0, 144, 0>>
         [] c0 \in {10, 11} -> <<c0, 0, 144, 0>>
         [] c0 \in {26, 27} -> <<Or(170, c0 % 2), 0>>
         [] c0 \in {170, 187} -> <<Xor(c0, 17), 0>>
         [] c0 = 186 -> <<171, 0>>
         [] c0 \in {202, 194} -> <<202, 0>>
         [] OTHER -> <<>>

\* "Copy the CID from the reader query"
CopyCid(resp, cmd) == [resp EXCEPT ![2] = ByteAt(cmd, 1)]

\* the last branch of the dispatch
OtherCommand(e, cmd) ==
    IF e.tag.tagType = 10
    THEN Pass(e, TagAnswer(RothultResponse(cmd), 2))
    ELSE LET resp == DynamicResponse(cmd)
         IN IF resp = <<>> THEN Pass(SetOrder(e, "NONE"), NoAnswer)
            ELSE Pass(e, TagAnswer(CopyCid(resp, cmd), 2))

\* the requests and selects that are answered from precompiled responses
SelectionCommand(c0, c1, len) ==
    \/ c0 \in {ISO14443A_CMD_REQA, ISO14443A_CMD_WUPA} /\ len = 1
    \/ /\ c0 \in {ISO14443A_CMD_ANTICOLL_OR_SELECT,
                  ISO14443A_CMD_ANTICOLL_OR_SELECT_2,
                  ISO14443A_CMD_ANTICOLL_OR_SELECT_3}
       /\ (c1 = 32 /\ len = 2) \/ (c1 = 112 /\ len = 9)

\* one pass of the main loop of SimulateIso14443aTag on the received bytes
\* cmd (CRC included): the ordered states first, then the dispatch on the
\* command byte, the length and the tag type
EmulatorPass(e, cmd) ==
    LET len == Len(cmd)
        c0 == cmd[1]
        c1 == ByteAt(cmd, 1)
        t == e.tag.tagType
        sel == SimulateIso14443aTag(e.tag,
                                    [b |-> cmd, len |-> len, bits |-> 8 * len])
        selected == Pass([e EXCEPT !.tag = sel.tag], sel.ans)
    IN IF e.tag.order = "EV1_COMP_WRITE" /\ len = 18
       THEN CompWritePart2(e, cmd)
       ELSE IF e.tag.order = "AUTH" /\ len = 8 /\ ~IsUL(t)
       THEN NrArCapture(e, cmd)
       ELSE IF SelectionCommand(c0, c1, len) THEN selected
       ELSE IF c0 = ISO14443A_CMD_PPS
       THEN Pass(e, TagAnswer(<<ISO14443A_CMD_PPS>>, 2))
       ELSE IF c0 = ISO14443A_CMD_READBLOCK /\ len = 4
       THEN IF IsUL(t) THEN ReadBlockUL(e, cmd) ELSE selected
       ELSE IF c0 = MIFARE_ULEV1_FASTREAD /\ len = 5 THEN FastRead(e, cmd)
       ELSE IF c0 = MIFARE_ULC_WRITE /\ len = 8 /\ IsUL(t) THEN WriteUL(e, cmd)
       ELSE IF c0 = MIFARE_ULC_COMP_WRITE /\ len = 4 /\ IsUL(t)
       THEN CompWritePart1(e, cmd)
       ELSE IF c0 = MIFARE_ULEV1_READSIG /\ len = 4 /\ t = 7
       THEN Pass(e, TagAnswer(Zeros(32), 2))
       ELSE IF c0 = MIFARE_ULEV1_READ_CNT /\ len = 4 /\ t = 7
       THEN ReadCnt(e, cmd)
       ELSE IF c0 = MIFARE_ULEV1_INCR_CNT /\ len = 8 /\ t = 7
       THEN IncrCnt(e, cmd)
       ELSE IF c0 = MIFARE_ULEV1_CHECKTEAR /\ len = 4 /\ t = 7
       THEN CheckTear(e, cmd)
       ELSE IF c0 = ISO14443A_CMD_HALT /\ len = 4 THEN selected
       ELSE IF c0 = MIFARE_ULEV1_VERSION /\ len = 3 /\ t \in {2, 7}
       THEN Pass(e, TagAnswer(<<0, 4, 4, 2, 1, 0, 17, 3>>, 2))
       ELSE IF c0 = MFDES_GET_VERSION /\ len = 4 /\ t = 3
       THEN Pass(e, TagAnswer(Zeros(8), 2))
       ELSE IF c0 \in {MIFARE_AUTH_KEYA, MIFARE_AUTH_KEYB} /\ len = 4 /\ ~IsUL(t)
       THEN AuthRequest(e, cmd)
       ELSE IF c0 = ISO14443A_CMD_RATS /\ len = 4 THEN selected
       ELSE IF c0 = MIFARE_ULC_AUTH_1 /\ len = 4 /\ t = 13 THEN UlcAuth1(e)
       ELSE IF c0 = MIFARE_ULC_AUTH_2 /\ len = 19 /\ t = 13 THEN UlcAuth2(e)
       ELSE IF c0 = MIFARE_ULEV1_AUTH /\ len = 7 /\ t = 7 THEN Ev1Auth(e, cmd)
       ELSE IF c0 = MIFARE_ULEV1_VCSL /\ len = 23 /\ t = 7
       THEN Pass(e, TagAnswer(<<PageAt(e.mem, e.pages - 2)[2]>>, 2))
       ELSE OtherCommand(e, cmd)

\* commands received in one run of the emulator
MaxEmuCmds == 3

\* commands received in one run of the emulator by a reader that only
\* authenticates
MaxAuthCmds == 8

\* the tag types emulated: Classic 1k, Ultralight, DESFire, NTAG 215
EmuTagTypes == {1, 2, 3, 7}

\* a frame whose CRC bytes are not its CRC
BadCrc(b) == b \o <<Xor(Crc14A(b)[1], 255), Crc14A(b)[2]>>

\* the sixteen data bytes of a compatibility write
CompData ==
    <<17, 34, 51, 68, 85, 102, 119, 136, 153, 170, 187, 204, 221, 238, 255, 1>>

\* a SELECT of cascade level 1 addressed to the UID part u: SEL, NVB 0x70,
\* the four bytes and their BCC
SelectFrame(u) == <<ISO14443A_CMD_ANTICOLL_OR_SELECT, 112>> \o WithBcc(u)

\* the UID of the emulated tags with four bytes, and one of no emulated tag
SelectedUids == {<<4, 17, 34, 51>>, <<1, 2, 3, 4>>}

\* commands that carry a CRC, without it
CrcCommands ==
    {<<ISO14443A_CMD_HALT, 0>>, <<ISO14443A_CMD_RATS, 128>>,
     <<ISO14443A_CMD_READBLOCK, 4>>, <<ISO14443A_CMD_READBLOCK, 32>>,
     <<MIFARE_ULEV1_FASTREAD, 4, 5>>, <<MIFARE_ULEV1_FASTREAD, 4, 16>>,
     <<MIFARE_ULEV1_FASTREAD, 5, 3>>, <<MIFARE_ULEV1_FASTREAD, 48, 49>>,
     <<MIFARE_ULC_WRITE, 4, 222, 173, 190, 239>>,
     <<MIFARE_ULC_WRITE, 3, 0, 0, 0, 0>>,
     <<MIFARE_ULC_WRITE, 64, 222, 173, 190, 239>>,
     <<MIFARE_ULC_COMP_WRITE, 4>>, <<MIFARE_ULC_COMP_WRITE, 64>>,
     <<MIFARE_ULC_COMP_WRITE, 3>>, CompData,
     <<MIFARE_ULEV1_READ_CNT, 0>>, <<MIFARE_ULEV1_READ_CNT, 3>>,
     <<MIFARE_ULEV1_INCR_CNT, 1, 1, 0, 0, 0>>,
     <<MIFARE_ULEV1_INCR_CNT, 2, 0, 0, 64, 0>>,
     <<MIFARE_ULEV1_INCR_CNT, 3, 1, 0, 0, 0>>,
     <<MIFARE_ULEV1_CHECKTEAR, 0>>, <<MIFARE_ULEV1_CHECKTEAR, 3>>,
     <<MIFARE_AUTH_KEYA, 0>>, <<MIFARE_AUTH_KEYB, 4>>,
     <<2, 0, 164>>, <<10, 1, 0>>,
     <<ISO14443A_CMD_PPS, 17, 0>>, <<MIFARE_ULEV1_VERSION>>,
     <<MIFARE_ULEV1_READSIG, 0>>, <<MIFARE_ULC_AUTH_1, 0>>,
     <<MIFARE_ULEV1_AUTH>> \o GeneratedPwd}
    \cup {SelectFrame(u) : u \in SelectedUids}

\* the commands of these that also arrive with a wrong CRC
BadCrcCommands ==
    {<<ISO14443A_CMD_HALT, 0>>, <<ISO14443A_CMD_RATS, 128>>,
     <<ISO14443A_CMD_READBLOCK, 4>>, <<MIFARE_ULEV1_FASTREAD, 4, 5>>,
     <<MIFARE_ULC_WRITE, 4, 222, 173, 190, 239>>,
     <<MIFARE_ULC_COMP_WRITE, 4>>, CompData,
     <<MIFARE_ULEV1_INCR_CNT, 1, 1, 0, 0, 0>>, <<MIFARE_AUTH_KEYA, 0>>}

\* the encrypted {nr}{ar} of a reader: eight bytes, no CRC
NrArFrames == {<<1, 2, 3, 4, 5, 6, 7, 8>>}

\* what the reader sends to the emulator
EmuCommands ==
    {<<ISO14443A_CMD_REQA>>, <<ISO14443A_CMD_WUPA>>,
     <<ISO14443A_CMD_ANTICOLL_OR_SELECT, 32>>}
    \cup {AddCrc14A(b) : b \in CrcCommands}
    \cup {BadCrc(b) : b \in BadCrcCommands}
    \cup NrArFrames

\* SimulateIso14443aTag up to its main loop, with FLAG_NR_AR_ATTACK in the
\* flags or not
Started(attack) ==
    \E t \in EmuTagTypes :
       LET r == SimulateIso14443aInit(
                   FreshStatics, t,
                   [uidlen |-> IF IsUL(t) THEN 7 ELSE 4, inEmul |-> FALSE],
                   <<4, 17, 34, 51, 68, 85, 102, 119, 136, 153>>,
                   EmulatorMemory)
       IN emu' = [EmuOff EXCEPT !.on = TRUE,
                                !.tag = EmulatedTag(t, r.st),
                                !.attack = attack,
                                !.pages = TagTypePages(t)]

\* the emulation of a tag is started
EmulatorStart ==
    /\ ~emu.on
    /\ Started(FALSE)
    /\ UNCHANGED exceptEmu

\* the emulation is started to collect {nr}{ar} pairs
EmulatorStartAttack ==
    /\ ~emu.on
    /\ Started(TRUE)
    /\ UNCHANGED exceptEmu

\* what a reader sends that only authenticates: to sector 0 and to sector 1
\* with key A, each time followed by its {nr}{ar}
AuthCommands ==
    {AddCrc14A(<<MIFARE_AUTH_KEYA, 0>>), AddCrc14A(<<MIFARE_AUTH_KEYA, 4>>)}
    \cup NrArFrames

\* one pass of the main loop: one of the commands arrives and is answered
Received(commands) ==
    \E cmd \in commands :
       \E r \in {EmulatorPass(emu, cmd)} :
          emu' = [r.e EXCEPT !.cmd = cmd, !.ans = r.ans, !.rec = r.rec,
                             !.ub = r.ub, !.cmdsRecvd = @ + 1]

\* a pass of the main loop with any reader
EmulatorCommand ==
    /\ emu.on
    /\ ~emu.ub
    /\ emu.cmdsRecvd < MaxEmuCmds
    /\ Received(EmuCommands)
    /\ UNCHANGED exceptEmu

\* a pass of the main loop with a reader that only authenticates
EmulatorAuthentication ==
    /\ emu.on
    /\ ~emu.ub
    /\ emu.cmdsRecvd < MaxAuthCmds
    /\ Received(AuthCommands)
    /\ UNCHANGED exceptEmu

\* GetIso14443aCommandFromReader returned false: the button was pressed
EmulatorStop ==
    /\ emu.on
    /\ emu' = EmuOff
    /\ UNCHANGED exceptEmu

----------------------------------------------------------------------------
(* ISO 14443-4 block exchange of the reader: iso14_apdu *)

\* WTX blocks answered within one call of iso14_apdu
MaxWtx == 1

\* the largest timeout a call of iso14_apdu starts with: its products with
\* WTXM stay below 2^31
MaxBaseTimeout == 524288

MAX_ISO14A_TIMEOUT == 524288

\* the default timeout of iso14443a_setup
SetupTimeout == 1060

\* iso14a_set_timeout: the stored value carries the reader's delays. The
\* timeouts of the model stay far below 2^32, where the uint32_t arithmetic
\* of the code does not wrap
iso14a_set_timeout(timeout) ==
    timeout + (DELAY_AIR2ARM_AS_READER + DELAY_ARM2AIR_AS_READER) \div 128 + 2

\* iso14a_get_timeout, of the stored value
iso14a_get_timeout(stored) ==
    stored - (DELAY_AIR2ARM_AS_READER + DELAY_ARM2AIR_AS_READER) \div 128 - 2

\* iso14a_set_ATS_times: the frame waiting time of the ATS sets the timeout,
\* FWI 15 leaves it
AtsTimeout(stored, fwi) ==
    IF fwi = 15 THEN stored
    ELSE iso14a_set_timeout((256 * 16 * Pow2(fwi)) \div (8 * 16))

\* the frame waiting time integers of the answers to RATS
AtsFwi == {8, 15}

ApduIdle ==
    [blocknum |-> 0, timeout |-> iso14a_set_timeout(SetupTimeout), op |-> "none",
     before |-> 0, base |-> 0, ret |-> 0, res |-> 0, tx |-> <<>>,
     rx |-> <<>>, rxTimeouts |-> <<>>, data |-> <<>>]

ApduInit == apdu = ApduIdle

\* the first frame of iso14_apdu: an I-block around cmd, or R(ACK) for an
\* empty cmd, with the current block number
ApduFrame(cmd, send_chaining, blocknum) ==
    IF Len(cmd) > 0
    THEN AddCrc14A(<<Or(Or(2, IF send_chaining THEN 16 ELSE 0), blocknum)>> \o cmd)
    ELSE AddCrc14A(<<Or(162, blocknum)>>)

\* (data_bytes[0] & 0xF2) == 0xF2
IsWtx(frame) == Len(frame) > 0 /\ And(frame[1], 242) = 242

\* the timeout handed to iso14a_set_timeout in the WTX loop
WtxTimeout(wtxm, save_iso14a_timeout) ==
    MAX(wtxm * save_iso14a_timeout, MAX_ISO14A_TIMEOUT)

\* the WTX frame sent back: byte 1 masked to six bits, CRC over len - 2 bytes
WtxReply(frame) ==
    AddCrc14A(<<frame[1], And(frame[2], 63)>> \o SubSeq(frame, 3, Len(frame) - 2))

\* the block number after the exchange: an I-block or R(ACK) of at least
\* three bytes with the current block number toggles it
BlockNumAfter(frame, blocknum) ==
    IF /\ Len(frame) >= 3
       /\ (And(frame[1], 192) = 0 \/ And(frame[1], 208) = 128)
       /\ And(frame[1], 1) = blocknum
    THEN Xor(blocknum, 1)
    ELSE blocknum

RECURSIVE WtxLoop(_, _, _, _)
\* the while loop of iso14_apdu from answer i on: st.data holds the frame
\* last received, st.len its length (0: nothing came)
WtxLoop(st, answers, pressed, i) ==
    IF ~(st.len > 0 /\ IsWtx(st.data)) THEN st
    ELSE IF pressed = i THEN [st EXCEPT !.aborted = TRUE]
    ELSE LET reply == WtxReply(st.data)
             t == iso14a_set_timeout(WtxTimeout(reply[2], st.base))
             next == IF i <= Len(answers) THEN answers[i] ELSE <<>>
         IN WtxLoop([st EXCEPT !.timeout = t,
                               !.tx = Append(@, reply),
                               !.rxTimeouts = Append(@, iso14a_get_timeout(t)),
                               !.rx = Append(@, next),
                               !.len = Len(next),
                               !.data = IF Len(next) > 0 THEN next ELSE reply],
                    answers, pressed, i + 1)

\* iso14_apdu(cmd, cmd_len, send_chaining, data, data_len, res): answers are
\* the frames the tag sends, one per ReaderReceive (<<>>: none in time);
\* pressed = i stops the call at the i-th pass of the WTX loop
iso14_apdu(a, cmd, send_chaining, answers, pressed) ==
    LET first == ApduFrame(cmd, send_chaining, a.blocknum)
        started == [a EXCEPT !.op = "apdu", !.before = a.blocknum,
                             !.tx = <<first>>, !.rx = <<answers[1]>>,
                             !.rxTimeouts = <<iso14a_get_timeout(a.timeout)>>,
                             !.base = iso14a_get_timeout(a.timeout)]
    IN IF Len(answers[1]) = 0
       THEN [started EXCEPT !.ret = 0, !.data = <<>>]
       ELSE LET st == WtxLoop([timeout |-> a.timeout, base |-> started.base,
                               tx |-> started.tx, rx |-> started.rx,
                               rxTimeouts |-> started.rxTimeouts,
                               len |-> Len(answers[1]), data |-> answers[1],
                               aborted |-> FALSE],
                              answers, pressed, 2)
                frame == IF st.len = 0 THEN <<>> ELSE st.data
                after == [started EXCEPT !.tx = st.tx, !.rx = st.rx,
                                         !.rxTimeouts = st.rxTimeouts]
            IN IF st.aborted
               THEN [after EXCEPT !.timeout = st.timeout, !.ret = 0 - 3,
                                  !.data = st.data]
               ELSE LET toggled == [after EXCEPT
                                      !.timeout = iso14a_set_timeout(st.base),
                                      !.blocknum = BlockNumAfter(frame, a.blocknum),
                                      !.res = st.data[1]]
                    IN IF st.len >= 3 /\ ~CheckCrc14A(frame)
                       THEN [toggled EXCEPT !.ret = 0 - 1, !.data = st.data]
                       ELSE IF st.len > 0
                       THEN [toggled EXCEPT !.ret = st.len - 1,
                                            !.data = SubSeq(st.data, 2, st.len)]
                       ELSE [toggled EXCEPT !.ret = 0, !.data = st.data]

\* what a tag may answer to a block: nothing, I-blocks of both block numbers,
\* an I-block with a wrong CRC, R(ACK), R(NAK), and S(WTX) with WTXM 1 and
\* with WTXM 59 under two high bits
ApduAnswers ==
    {<<>>,
     AddCrc14A(<<2, 144, 0>>), AddCrc14A(<<3, 144, 0>>), <<2, 144, 0, 0, 0>>,
     AddCrc14A(<<162>>), AddCrc14A(<<178>>),
     AddCrc14A(<<242, 1>>), AddCrc14A(<<242, 251>>)}

\* the calls of iso14_apdu, cmd and send_chaining: the empty cmd asks for an
\* R(ACK), the other is the first part of a chained command
ApduCalls == {<<<<>>, FALSE>>, <<<<0, 164, 4, 0>>, TRUE>>}

\* the answers of one call: WTX blocks, at most MaxWtx of them followed by
\* another answer
AnswerRuns ==
    UNION {{r \in [1..n -> ApduAnswers] : \A i \in 1..(n - 1) : IsWtx(r[i])} :
           n \in 1..(MaxWtx + 1)}

\* ReaderIso14443a with ISO14A_CONNECT: the block number is reset and
\* iso14443a_setup sets the default timeout
ApduConnect ==
    /\ apdu' = [ApduIdle EXCEPT !.op = "connect"]
    /\ UNCHANGED exceptApdu

\* the RATS at the end of iso14443a_select_cardEx, answered with an ATS
ApduRats ==
    /\ \E fwi \in AtsFwi :
          apdu' = [ApduIdle EXCEPT !.op = "rats",
                                   !.timeout = AtsTimeout(apdu.timeout, fwi)]
    /\ UNCHANGED exceptApdu

\* one call of iso14_apdu; the button can stop it when the last of the
\* tag's answers is a WTX
ApduExchange ==
    /\ iso14a_get_timeout(apdu.timeout) <= MaxBaseTimeout
    /\ \E call \in ApduCalls, answers \in AnswerRuns, button \in BOOLEAN :
          /\ button => IsWtx(answers[Len(answers)])
          /\ apdu' = iso14_apdu(apdu, call[1], call[2], answers,
                                IF button THEN Len(answers) + 1 ELSE 0)
    /\ UNCHANGED exceptApdu

----------------------------------------------------------------------------
(* The 14a configuration and the polling list derived from it *)

\* calls of setHf14aConfig in one run
MaxConfigCalls == 3

MAGSAFE_CMD_WUPA_1 == 122
MAGSAFE_CMD_WUPA_2 == 123
MAGSAFE_CMD_WUPA_3 == 124
MAGSAFE_CMD_WUPA_4 == 125

\* ARRAYLEN(hf14a_polling_parameters.frames): iso14a_polling_parameters_t
\* of include/mifare.h declares frames[6]
PollingFramesLen == 6

\* an iso14a_polling_frame_t
PollingFrame(bytes, last_byte_bits) ==
    [frame |-> bytes, frame_length |-> Len(bytes), last_byte_bits |-> last_byte_bits,
     extra_delay |-> 0]

\* {{0}, 0, 0, 0}
NoPollingFrame == PollingFrame(<<>>, 0)

WUPA_CMD_FRAME == PollingFrame(<<ISO14443A_CMD_WUPA>>, 7)

MAGWUPA_CMD_FRAMES ==
    <<PollingFrame(<<MAGSAFE_CMD_WUPA_1>>, 7), PollingFrame(<<MAGSAFE_CMD_WUPA_2>>, 7),
      PollingFrame(<<MAGSAFE_CMD_WUPA_3>>, 7), PollingFrame(<<MAGSAFE_CMD_WUPA_4>>, 7)>>

\* static hf14a_config_t hf14aconfig = { 0, 0, 0, 0, 0, 0, {{0}, 0, 0, 0} }
DefaultHf14aConfig ==
    [forceanticol |-> 0, forcebcc |-> 0, forcecl2 |-> 0, forcecl3 |-> 0,
     forcerats |-> 0, magsafe |-> 0, polling_loop_annotation |-> NoPollingFrame]

\* static hf14a_polling_parameters: WUPA alone, the other slots zero
DefaultPolling ==
    [frames |-> [k \in 0..(PollingFramesLen - 1) |->
                    IF k = 0 THEN WUPA_CMD_FRAME ELSE NoPollingFrame],
     frame_count |-> 1, extra_timeout |-> 0]

ConfigInit == hf14a = [config |-> DefaultHf14aConfig, polling |-> DefaultPolling, calls |-> 0]

\* one field of setHf14aConfig: taken when it is within 0..max
Accept(old, new, max) == IF new >= 0 /\ new <= max THEN new ELSE old

\* a frame is appended only while frame_count < ARRAYLEN(frames) - 1
PollingAppend(p, frame) ==
    IF p.frame_count < PollingFramesLen - 1
    THEN [p EXCEPT !.frames[p.frame_count] = frame, !.frame_count = @ + 1]
    ELSE p

RECURSIVE AppendMagsafe(_, _)
\* the loop over MAGWUPA_CMD_FRAMES from index i
AppendMagsafe(p, i) ==
    IF i > Len(MAGWUPA_CMD_FRAMES) THEN p
    ELSE AppendMagsafe(PollingAppend(p, MAGWUPA_CMD_FRAMES[i]), i + 1)

\* the second half of setHf14aConfig: the polling list derived from the
\* stored configuration, written over the previous one
DerivePolling(old, config) ==
    LET wupa == [old EXCEPT !.frames[0] = WUPA_CMD_FRAME, !.frame_count = 1,
                            !.extra_timeout = 0]
        mag == IF config.magsafe = 1 THEN AppendMagsafe(wupa, 1) ELSE wupa
    IN IF config.polling_loop_annotation.frame_length > 0
       THEN [PollingAppend(mag, config.polling_loop_annotation) EXCEPT
               !.extra_timeout = 250]
       ELSE mag

\* the first half: the fields of hc that are in range are stored
StoreConfig(config, hc) ==
    [forceanticol |-> Accept(config.forceanticol, hc.forceanticol, 2),
     forcebcc |-> Accept(config.forcebcc, hc.forcebcc, 2),
     forcecl2 |-> Accept(config.forcecl2, hc.forcecl2, 2),
     forcecl3 |-> Accept(config.forcecl3, hc.forcecl3, 2),
     forcerats |-> Accept(config.forcerats, hc.forcerats, 2),
     magsafe |-> Accept(config.magsafe, hc.magsafe, 1),
     polling_loop_annotation |->
        IF hc.polling_loop_annotation.frame_length >= 0
        THEN hc.polling_loop_annotation
        ELSE config.polling_loop_annotation]

\* -1 in every field of the selection overrides: no change
NoOverride ==
    [forceanticol |-> 0 - 1, forcebcc |-> 0 - 1, forcecl2 |-> 0 - 1,
     forcecl3 |-> 0 - 1, forcerats |-> 0 - 1]

\* the overrides a call carries: none, or one field with a value in or out
\* of its range
Overrides ==
    {NoOverride} \cup
    {[NoOverride EXCEPT ![f] = v] :
        f \in {"forceanticol", "forcebcc", "forcecl2", "forcecl3", "forcerats"},
        v \in {1, 3}}

\* the annotation frames a call carries: disabled, one byte, two bytes
Annotations == {NoPollingFrame, PollingFrame(<<106>>, 8), PollingFrame(<<106, 2>>, 8)}

\* setHf14aConfig(hc)
setHf14aConfig ==
    /\ hf14a.calls < MaxConfigCalls
    /\ \E o \in Overrides, mags \in {0 - 1, 0, 1, 2}, a \in Annotations :
          LET hc == [forceanticol |-> o.forceanticol, forcebcc |-> o.forcebcc,
                     forcecl2 |-> o.forcecl2, forcecl3 |-> o.forcecl3,
                     forcerats |-> o.forcerats, magsafe |-> mags,
                     polling_loop_annotation |-> a]
              config == StoreConfig(hf14a.config, hc)
          IN hf14a' = [config |-> config,
                       polling |-> DerivePolling(hf14a.polling, config),
                       calls |-> hf14a.calls + 1]
    /\ UNCHANGED exceptConfig

----------------------------------------------------------------------------
(* The MIFARE Classic nonce generator and dist_nt. A 32-bit word is the     *)
(* pair of its 16-bit halves <<high, low>>.                                 *)

\* the bytes of a 16-bit half exchanged
Swap16(h) == (h % 256) * 256 + h \div 256

\* SWAPENDIAN of a 32-bit word
SWAPENDIAN(x) == <<Swap16(x[2]), Swap16(x[1])>>

\* one step of the generator on the swapped word:
\* x = x >> 1 | (x >> 16 ^ x >> 18 ^ x >> 19 ^ x >> 21) << 31
LfsrStep(x) ==
    LET fb == (Bit(x[1], 0) + Bit(x[1], 2) + Bit(x[1], 3) + Bit(x[1], 5)) % 2
    IN <<x[1] \div 2 + 32768 * fb, x[2] \div 2 + 32768 * (x[1] % 2)>>

RECURSIVE LfsrSteps(_, _)
LfsrSteps(x, n) == IF n = 0 THEN x ELSE LfsrSteps(LfsrStep(x), n - 1)

\* prng_successor(x, n)
prng_successor(x, n) == SWAPENDIAN(LfsrSteps(SWAPENDIAN(x), n))

\* bit j of a swapped word, 0 the oldest
WordBit(x, j) == IF j < 16 THEN Bit(x[2], j) ELSE Bit(x[1], j - 16)

\* a valid nonce is 32 successive bits of the generator's sequence, not all 0
ValidNonce(nt) ==
    LET x == SWAPENDIAN(nt)
    IN /\ x # <<0, 0>>
       /\ \A j \in 16..31 :
             WordBit(x, j) = (WordBit(x, j - 16) + WordBit(x, j - 14)
                              + WordBit(x, j - 13) + WordBit(x, j - 11)) % 2

\* the loop of dist_nt runs for i = 1 .. 32767
DistLoopEnd == 32768

\* a loop that ends one pass early
DistLoopStopsEarly(i) == i < DistLoopEnd - 1

\* for (uint16_t i = 1; i < 32768; i++)
DistLoopContinues(i) == i < DistLoopEnd

\* the value dist_nt returns when it gives up
DistNone == 0 - 99999

\* the words the nonces are made from, as GetTickCount() is at line 1991
NonceSeeds == {<<0, 1>>, <<4660, 22136>>}

\* the first nonce: made by prng_successor(seed, 32) as the emulator does,
\* and two words that no tag sends, 0 and one off the sequence
FirstNonces ==
    {prng_successor(s, 32) : s \in NonceSeeds} \cup {<<0, 0>>, <<1, 1>>}

\* the distances at which dist_nt is called
SampleDistances == {0, 1, 2, DistLoopEnd - 2, DistLoopEnd - 1, DistLoopEnd}

PrngIdle ==
    [pc |-> "idle", nt1 |-> <<0, 0>>, nt2 |-> <<0, 0>>, k |-> 0, related |-> TRUE,
     a |-> <<0, 0>>, b |-> <<0, 0>>, i |-> 0, nttmp1 |-> <<0, 0>>, nttmp2 |-> <<0, 0>>,
     ret |-> 0, first |-> 0, calls |-> 0]

PrngInit == prng = PrngIdle

\* a first nonce is chosen
PrngSeed ==
    /\ prng.pc = "idle"
    /\ \E nt \in FirstNonces :
          prng' = [prng EXCEPT !.pc = "gen", !.nt1 = nt, !.nt2 = nt]
    /\ UNCHANGED exceptPrng

\* the second nonce moves one step on: nt2 = prng_successor(nt1, k)
PrngAdvance ==
    /\ prng.pc = "gen"
    /\ prng.related
    /\ prng.k < DistLoopEnd
    /\ prng' = [prng EXCEPT !.nt2 = prng_successor(@, 1), !.k = @ + 1]
    /\ UNCHANGED exceptPrng

\* the second nonce is replaced by one that has nothing to do with the first
PrngUnrelated ==
    /\ prng.pc = "gen"
    /\ prng.k = 0
    /\ prng.related
    /\ ValidNonce(prng.nt1)
    /\ \E nt \in {<<0, 0>>, <<1, 1>>} :
          prng' = [prng EXCEPT !.nt2 = nt, !.related = FALSE]
    /\ UNCHANGED exceptPrng

\* dist_nt(a, b) up to its loop
DistEnter(p, a, b) ==
    IF a = b
    THEN [p EXCEPT !.pc = "ret", !.a = a, !.b = b, !.ret = 0, !.i = 0,
                   !.calls = @ + 1]
    ELSE [p EXCEPT !.pc = "loop", !.a = a, !.b = b, !.i = 1, !.nttmp1 = a,
                   !.nttmp2 = b, !.calls = @ + 1]

\* dist_nt(nt1, nt2) is called
DistCall ==
    /\ prng.pc = "gen"
    /\ prng.k \in SampleDistances
    /\ prng' = DistEnter(prng, prng.nt1, prng.nt2)
    /\ UNCHANGED exceptPrng

\* one pass of the loop of dist_nt, or the return after it
DistLoop ==
    /\ prng.pc = "loop"
    /\ LET n1 == prng_successor(prng.nttmp1, 1)
           n2 == prng_successor(prng.nttmp2, 1)
       IN prng' =
            IF ~DistLoopContinues(prng.i)
            THEN [prng EXCEPT !.pc = "ret", !.ret = DistNone]
            ELSE IF n1 = prng.b
            THEN [prng EXCEPT !.pc = "ret", !.ret = prng.i, !.nttmp1 = n1]
            ELSE IF n2 = prng.a
            THEN [prng EXCEPT !.pc = "ret", !.ret = 0 - prng.i, !.nttmp1 = n1,
                              !.nttmp2 = n2]
            ELSE [prng EXCEPT !.i = @ + 1, !.nttmp1 = n1, !.nttmp2 = n2]
    /\ UNCHANGED exceptPrng

\* after dist_nt(nt1, nt2) has returned, dist_nt(nt2, nt1) is called
DistCallBack ==
    /\ prng.pc = "ret"
    /\ prng.calls = 1
    /\ prng' = DistEnter([prng EXCEPT !.first = prng.ret], prng.nt2, prng.nt1)
    /\ UNCHANGED exceptPrng

----------------------------------------------------------------------------
(* ReaderMifare: the synchronised nonce collection loop. A nonce is 0 (none *)
(* received yet), its place 1..65535 in the generator's sequence, or a      *)
(* larger number for a word that neither reaches another nonce of the run   *)
(* within 32767 steps nor is reached from one.                              *)

\* passes of the loop in one call
MaxPasses == 1100

\* calls of ReaderMifare in one run
MaxMifareCalls == 2

PRNG_SEQUENCE_LENGTH == 65536

MAX_UNEXPECTED_RANDOM == 4

MAX_SYNC_TRIES == 32

\* the passes between two tests of the button
ButtonCheckPasses == 1000

\* the nonces of the generator's sequence: all 32-bit windows but 0
SequenceLength == PRNG_SEQUENCE_LENGTH - 1

OnSequence(nt) == nt >= 1 /\ nt <= SequenceLength

\* dist_nt(nt1, nt2) of two nonces given by their places
NtDistance(nt1, nt2) ==
    IF nt1 = nt2 THEN 0
    ELSE IF ~(OnSequence(nt1) /\ OnSequence(nt2)) THEN DistNone
    ELSE LET d == (nt2 - nt1) % SequenceLength
         IN IF d < DistLoopEnd THEN d ELSE d - SequenceLength

\* int32_t division of C, which rounds towards 0; the divisor is positive
CDiv(a, b) == IF a >= 0 THEN a \div b ELSE 0 - ((0 - a) \div b)

\* the tags in the field, each a script of what it answers in pass i
TagScripts ==
    {[kind |-> "none", d |-> 0, noise |-> 0, elapsed |-> 1, nackAt |-> 0, nacks |-> 0],
     [kind |-> "mute", d |-> 0, noise |-> 0, elapsed |-> 1, nackAt |-> 0, nacks |-> 0],
     [kind |-> "lucky", d |-> 0, noise |-> 0, elapsed |-> 1, nackAt |-> 2, nacks |-> 0],
     [kind |-> "lostsync", d |-> 8, noise |-> 0, elapsed |-> 1, nackAt |-> 0, nacks |-> 0],
     [kind |-> "lostsync", d |-> 70000, noise |-> 0, elapsed |-> 1, nackAt |-> 0, nacks |-> 0],
     [kind |-> "lostsync", d |-> 16384, noise |-> 0, elapsed |-> 1, nackAt |-> 0, nacks |-> 0]}
    \cup
    {[kind |-> "drift", d |-> d, noise |-> n, elapsed |-> e, nackAt |-> 0, nacks |-> 0] :
        d \in {160, SequenceLength - 160}, n \in {0, 3, 4, 6}, e \in {1, 2}}
    \cup
    {[kind |-> "stable", d |-> 0, noise |-> 0, elapsed |-> 1, nackAt |-> t, nacks |-> k] :
        t \in {0, 3, 37}, k \in {0, 1, 8}}

\* iso14443a_select_card / iso14443a_fast_select_card succeed
Selects(tag) == tag.kind # "none"

\* the tag answers the AUTH with four bytes
SendsNonce(tag) == tag.kind \notin {"none", "mute"}

\* the nonce of pass i: tag.noise words off the sequence come first
NonceAt(tag, i) ==
    IF i < tag.noise THEN PRNG_SEQUENCE_LENGTH + 1 + (i % 2)
    ELSE IF tag.kind = "drift" THEN 1 + ((i * tag.d) % SequenceLength)
    ELSE IF tag.kind = "lostsync" /\ i >= 2 THEN 1 + tag.d
    ELSE 1

\* the parity byte the tag answers with a NACK for this nt_diff: the three
\* high bits are those of the first NACK
NackParity(tag, nt_diff) ==
    And(tag.nackAt, 224) + ((tag.nackAt + nt_diff) % 32)

\* ReaderReceive after {nr}{ar}: 1 for a NACK, 4 for a full answer, else 0
AnswerLen(tag, i, nt_diff, par0) ==
    IF tag.kind = "lucky" /\ i = tag.nackAt THEN 4
    ELSE IF tag.kind = "stable" /\ nt_diff < tag.nacks /\ par0 = NackParity(tag, nt_diff)
    THEN 1
    ELSE 0

\* the statics of ReaderMifare before its first call
MifareIdle ==
    [running |-> FALSE, calls |-> 0, first_try |-> TRUE,
     tag |-> CHOOSE t \in TagScripts : t.kind = "none",
     sync_cycles |-> 0, nt_attacked |-> 0, mf_nr_ar3 |-> 0, par_low |-> 0,
     i |-> 0, checkbtn_cnt |-> 0, have_uid |-> FALSE, nt |-> 0, previous_nt |-> 0,
     catch_up_cycles |-> 0, last_catch_up |-> 0, elapsed_prng_sequences |-> 1,
     consecutive_resyncs |-> 0, unexpected_random |-> 0, sync_tries |-> 0,
     nt_diff |-> 0, par0 |-> 0, nr3 |-> 0, nacks |-> 0, tried |-> 0,
     isOK |-> 0, cause |-> "none", replies |-> 0, stuck |-> FALSE]

MifareInit == mf = MifareIdle

\* ReaderMifare(first_try, block, keytype) up to its loop
MifareEnter(m, first_try, tag) ==
    LET locals == [m EXCEPT !.running = TRUE, !.calls = @ + 1, !.first_try = first_try,
                            !.tag = tag, !.i = 0, !.checkbtn_cnt = 0,
                            !.have_uid = FALSE, !.nt = 0, !.previous_nt = 0,
                            !.catch_up_cycles = 0, !.last_catch_up = 0,
                            !.elapsed_prng_sequences = 1, !.consecutive_resyncs = 0,
                            !.unexpected_random = 0, !.sync_tries = 0, !.nt_diff = 0,
                            !.par0 = 0, !.nr3 = 0, !.nacks = 0, !.tried = 0,
                            !.isOK = 0, !.cause = "none", !.replies = 0]
    IN IF first_try
       THEN [locals EXCEPT !.sync_cycles = PRNG_SEQUENCE_LENGTH, !.nt_attacked = 0,
                           !.mf_nr_ar3 = 0, !.par_low = 0]
       ELSE [locals EXCEPT !.mf_nr_ar3 = U8(@ + 1), !.nr3 = U8(m.mf_nr_ar3 + 1),
                           !.par0 = m.par_low]

\* a break: the loop is left with isOK set, the reply is sent and the field
\* and the tracing are switched off
MifareBreak(m, isOK, cause) ==
    [m EXCEPT !.running = FALSE, !.isOK = isOK, !.cause = cause,
              !.nr3 = And(@, 31), !.replies = @ + 1]

\* continue: the next pass
MifareContinue(m) == [m EXCEPT !.i = U16(@ + 1)]

\* the recalibration of sync_cycles after a distance that is neither 0 nor
\* invalid
Recalibrate(m, nt_distance) ==
    LET sc1 == CDiv(m.sync_cycles - nt_distance, m.elapsed_prng_sequences)
        sc2 == IF sc1 <= 10 THEN sc1 + PRNG_SEQUENCE_LENGTH ELSE sc1
        sc3 == IF sc2 > PRNG_SEQUENCE_LENGTH * 2 THEN PRNG_SEQUENCE_LENGTH ELSE sc2
    IN [m EXCEPT !.sync_cycles = sc3]

\* a calibration that counts its tries without giving up
CalibrateUnbounded(m) ==
    LET nt_distance == NtDistance(m.previous_nt, m.nt)
    IN IF nt_distance = 0
       THEN [next |-> "on", m |-> [m EXCEPT !.nt_attacked = m.nt]]
       ELSE IF nt_distance = DistNone
       THEN [next |-> "continue", m |-> [m EXCEPT !.unexpected_random = @ + 1]]
       ELSE [next |-> "continue",
             m |-> Recalibrate([m EXCEPT !.sync_tries = @ + 1], nt_distance)]

\* the part of a pass before nt_attacked is set: m.nt and m.previous_nt are
\* those of this pass. The result says how the pass goes on
Calibrate(m) ==
    LET nt_distance == NtDistance(m.previous_nt, m.nt)
    IN IF nt_distance = 0
       THEN [next |-> "on", m |-> [m EXCEPT !.nt_attacked = m.nt]]
       ELSE IF nt_distance = DistNone
       THEN LET u == [m EXCEPT !.unexpected_random = @ + 1]
            IN IF u.unexpected_random > MAX_UNEXPECTED_RANDOM
               THEN [next |-> "break", m |-> MifareBreak(u, 3, "unexpected_random")]
               ELSE [next |-> "continue", m |-> u]
       ELSE LET t == [m EXCEPT !.sync_tries = @ + 1]
            IN IF t.sync_tries > MAX_SYNC_TRIES
               THEN [next |-> "break", m |-> MifareBreak(t, 4, "sync_tries")]
               ELSE [next |-> "continue", m |-> Recalibrate(t, nt_distance)]

\* sync was lost after nt_attacked was set: catch up
CatchUp(m) ==
    LET dist == 0 - NtDistance(m.nt_attacked, m.nt)
    IN IF dist = 0 - DistNone
       THEN [m EXCEPT !.catch_up_cycles = 0]
       ELSE LET c == CDiv(dist, m.elapsed_prng_sequences)
                r == IF c = m.last_catch_up
                     THEN [m EXCEPT !.catch_up_cycles = c, !.consecutive_resyncs = @ + 1]
                     ELSE [m EXCEPT !.catch_up_cycles = c, !.last_catch_up = c,
                                    !.consecutive_resyncs = 0]
            IN IF r.consecutive_resyncs < 3 THEN r
               ELSE [r EXCEPT !.sync_cycles = @ + c, !.last_catch_up = 0,
                              !.catch_up_cycles = 0, !.consecutive_resyncs = 0]

\* the end of a pass in sync: a NACK is stored, or the next parity is tried
Collect(m, received_nack) ==
    IF received_nack
    THEN LET low == IF m.nt_diff = 0 THEN And(m.par0, 224) ELSE m.par_low
             n == [m EXCEPT !.catch_up_cycles = 8, !.par_low = low, !.nacks = @ + 1]
         IN IF m.nt_diff = 7
            THEN MifareBreak(n, 1, "nacks")
            ELSE MifareContinue([n EXCEPT
                    !.nt_diff = And(m.nt_diff + 1, 7),
                    !.nr3 = Or(And(@, 31), And(m.nt_diff + 1, 7) * 32),
                    !.par0 = low, !.consecutive_resyncs = 0])
    ELSE IF m.nt_diff = 0 /\ m.first_try
    THEN LET p == [m EXCEPT !.par0 = U8(@ + 1), !.tried = @ + 1]
         IN IF p.par0 = 0
            THEN MifareBreak(p, 2, "parities")
            ELSE MifareContinue([p EXCEPT !.consecutive_resyncs = 0])
    ELSE MifareContinue([m EXCEPT !.par0 = Or(And(@, 31) + 1, m.par_low),
                                  !.consecutive_resyncs = 0])

\* while (sync_time < GetCountSspClk() + SYNC_TIME_BUFFER) with sync_time =
\* (sync_time & 0xfffffff8) + sync_cycles in its body: sync_time moves ahead
\* from one round to the next only if sync_cycles is 8 or more
SyncTimeAdvances(sync_cycles) == sync_cycles >= 8

\* the loop that skips whole periods does not come ahead of the clock: the
\* pass stays in it (or leaves it when a 32-bit time wraps, after a number
\* of rounds that elapsed_prng_sequences, 16 bits wide, does not hold)
SyncLoopStuck(m) == [m EXCEPT !.stuck = TRUE]

\* one pass of the for loop; pressed: BUTTON_PRESS() || data_available()
MifareLoop(m0, pressed) ==
    IF m0.checkbtn_cnt = ButtonCheckPasses /\ pressed
    THEN MifareBreak(m0, 5, "button")
    ELSE
    LET m == [m0 EXCEPT !.checkbtn_cnt =
                 IF @ = ButtonCheckPasses THEN 1 ELSE @ + 1]
    IN IF ~Selects(m.tag) THEN MifareContinue(m)
       ELSE IF ~SyncTimeAdvances(m.sync_cycles) THEN SyncLoopStuck(m)
       ELSE
       LET sel == [m EXCEPT !.have_uid = TRUE,
                            !.elapsed_prng_sequences = m.tag.elapsed,
                            !.catch_up_cycles = 0]
       IN IF ~SendsNonce(sel.tag) THEN MifareContinue(sel)
          ELSE
          LET got == [sel EXCEPT !.previous_nt = sel.nt, !.nt = NonceAt(sel.tag, sel.i)]
              resp_res == AnswerLen(got.tag, got.i, got.nt_diff, got.par0)
          IN IF resp_res = 4 THEN MifareBreak(got, 6, "answer")
             ELSE
             LET cal == IF got.previous_nt # 0 /\ got.nt_attacked = 0
                        THEN Calibrate(got)
                        ELSE [next |-> "on", m |-> got]
             IN IF cal.next = "break" THEN cal.m
                ELSE IF cal.next = "continue" THEN MifareContinue(cal.m)
                ELSE IF cal.m.nt # cal.m.nt_attacked /\ cal.m.nt_attacked # 0
                THEN MifareContinue(CatchUp(cal.m))
                ELSE Collect(cal.m, resp_res = 1)

\* ReaderMifare is called
ReaderMifare ==
    /\ ~mf.running
    /\ mf.calls < MaxMifareCalls
    /\ \E first_try \in BOOLEAN, tag \in TagScripts :
          /\ ~first_try => mf.calls > 0
          /\ mf' = MifareEnter(mf, first_try, tag)
    /\ UNCHANGED exceptMifare

\* one pass of its loop
MifarePass ==
    /\ mf.running
    /\ ~mf.stuck
    /\ mf.i < MaxPasses
    /\ \E pressed \in BOOLEAN :
          /\ pressed => mf.checkbtn_cnt = ButtonCheckPasses
          /\ mf' = MifareLoop(mf, pressed)
    /\ UNCHANGED exceptMifare

----------------------------------------------------------------------------
(* EmLogTrace: the times of a reader command and of the emulator's answer   *)

\* bytes of the longest reader command that is logged
MaxLogFrameBytes == 60

\* the cycles a reader frame of len bytes takes on the air: the start of
\* communication and nine bits a byte
ReaderFrameCycles(len) == (1 + 9 * len) * 128

\* uint16_t exact_fdt = (approx_fdt - 20 + 32) / 64 * 64 + 20
ExactFdt(approx_fdt) == U16(((approx_fdt - 20 + 32) \div 64) * 64 + 20)

\* the reader frame's duration as EmLogTrace keeps it, in a uint16_t
ReaderModLen(reader_StartTime, reader_EndTime) == U16(reader_EndTime - reader_StartTime)

\* EmLogTrace: the times of the two LogTrace entries
EmLogTrace(reader_StartTime, reader_EndTime, tag_StartTime, tag_EndTime) ==
    LET reader_modlen == ReaderModLen(reader_StartTime, reader_EndTime)
        approx_fdt == U16(tag_StartTime - reader_EndTime)
        exact_fdt == ExactFdt(approx_fdt)
        end == tag_StartTime - exact_fdt
    IN [reader_StartTime |-> end - reader_modlen, reader_EndTime |-> end,
        tag_StartTime |-> tag_StartTime, tag_EndTime |-> tag_EndTime]

NoTimes == [reader_StartTime |-> 0, reader_EndTime |-> 0, tag_StartTime |-> 0, tag_EndTime |-> 0]

EmLogInit == emlog = [calls |-> 0, len |-> 0, measured |-> NoTimes, logged |-> NoTimes]

\* when the reader's command starts
ReaderStarts == {100000, 100016, 5000000}

\* the measured gap between the command's end and the answer's start:
\* around 9 * 128 + 20 and 10 * 128 + 20, and one longer than a uint16_t holds
MeasuredGaps == {1140, 1172, 1180, 1203, 1204, 1236, 1300, 70000}

\* the cycles the answer takes
AnswerCycles == {1152, 23040}

\* EmSendCmd14443aRaw / EmSendPrecompiledCmd logging a command and its answer;
\* the logged times depend on this call's arguments alone, so one call is
\* followed
EmLogTraceCall ==
    /\ emlog.calls = 0
    /\ \E len \in 1..MaxLogFrameBytes, start \in ReaderStarts, gap \in MeasuredGaps,
          answer \in AnswerCycles :
          LET reader_EndTime == start + ReaderFrameCycles(len)
              tag_StartTime == reader_EndTime + gap
              tag_EndTime == tag_StartTime + answer
          IN emlog' = [calls |-> 1, len |-> len,
                       measured |-> [reader_StartTime |-> start,
                                     reader_EndTime |-> reader_EndTime,
                                     tag_StartTime |-> tag_StartTime,
                                     tag_EndTime |-> tag_EndTime],
                       logged |-> EmLogTrace(start, reader_EndTime, tag_StartTime,
                                             tag_EndTime)]
    /\ UNCHANGED exceptEmLog

----------------------------------------------------------------------------
(* GetParity called on a byte sequence                                      *)

\* bytes of the longest sequence GetParity is given
MaxParityLen == 12

\* the bytes of the sequences: even and odd numbers of ones
ParityBytes == {0, 7}


\* bytes of the parity buffer followed
ParityBufLen == MaxParityLen \div 8 + 2

\* what the parity buffer holds before the call
StaleParity == [k \in 1..ParityBufLen |-> 170]

ParityInit == gp = [called |-> FALSE, cmd |-> <<>>,
                    par |-> StaleParity, stores |-> 0]

\* GetParity(pbtCmd, len, par): par[0 .. len / 8] are stored, the last of
\* them by the statement after the loop
GetParityCall ==
    /\ ~gp.called
    /\ \E len \in 0..MaxParityLen :
          \E cmd \in [1..len -> ParityBytes] :
              LET written == GetParity(cmd)
              IN gp' = [called |-> TRUE, cmd |-> cmd,
                        par |-> [k \in 1..ParityBufLen |->
                                    IF k <= Len(written) THEN written[k] ELSE gp.par[k]],
                        stores |-> Len(written)]
    /\ UNCHANGED exceptParity

----------------------------------------------------------------------------
(* EmGetCmd: waiting for a reader command as a tag                          *)

\* passes of the loop of EmGetCmd that are followed
MaxGetCmdPasses == 12010

\* passes of the loop in one millisecond of GetTickCount
PassesPerTick == 50

\* uint16_t checker = 4000
CheckerStart == 4000

\* if (flip == 3)
FlipLimit == 3

\* if (analogCnt >= 32)
AnalogWindow == 32

\* if (GetTickCountDelta(timer) > 4)
NoFieldTicks == 4

\* never, as a pass of the loop
NoPass == MaxGetCmdPasses + 1

\* what happens around the emulator during one call: whether the button is
\* held, whether the client has sent data, the passes during which the field
\* is missing, and the pass at which MillerDecoding completes a command of
\* len bytes
GetCmdScripts ==
    [button : BOOLEAN, data : BOOLEAN,
     fieldOffFrom : {NoPass, 1, 5000}, fieldOffFor : {100, NoPass},
     frameAt : {NoPass, 10, 4500}, len : {1}]
    \cup [button : {FALSE}, data : BOOLEAN, fieldOffFrom : {NoPass, 1},
          fieldOffFor : {100}, frameAt : {12005}, len : {4}]

\* GetTickCount() during a pass
TickAt(pass) == 1 + pass \div PassesPerTick

\* the field is missing during a pass
FieldOff(e, pass) == pass >= e.fieldOffFrom /\ pass < e.fieldOffFrom + e.fieldOffFor

GetCmdIdle == [pc |-> "idle", env |-> [button |-> FALSE, data |-> FALSE,
                                       fieldOffFrom |-> NoPass, fieldOffFor |-> NoPass,
                                       frameAt |-> NoPass, len |-> 1],
               pass |-> 0, flip |-> 0, checker |-> 0, analogCnt |-> 0, timer |-> 0,
               len |-> 0, ret |-> 0, cause |-> "none"]

GetCmdInit == getcmd = GetCmdIdle

\* EmGetCmd up to its loop
EmGetCmd ==
    /\ getcmd.pc = "idle"
    /\ \E script \in GetCmdScripts :
          getcmd' = [GetCmdIdle EXCEPT !.pc = "loop", !.env = script, !.len = 0,
                                       !.flip = 0, !.checker = CheckerStart]
    /\ UNCHANGED exceptGetCmd

\* return false, after the button or the client's data
AbortStatus == 0

GetCmdReturn(g, ret, cause) == [g EXCEPT !.pc = "done", !.ret = ret, !.cause = cause]

\* the field test of one pass: a conversion is complete at every pass, and
\* the average of a window is below MF_MINFIELDV when the field is missing
\* at its end
FieldTest(g, pass) ==
    LET cnt == g.analogCnt + 1
    IN IF cnt >= AnalogWindow
       THEN IF FieldOff(g.env, pass)
            THEN IF g.timer = 0
                 THEN [g EXCEPT !.analogCnt = 0, !.timer = TickAt(pass)]
                 ELSE IF TickAt(pass) - g.timer > NoFieldTicks
                      THEN GetCmdReturn(g, 2, "field")
                      ELSE [g EXCEPT !.analogCnt = 0]
            ELSE [g EXCEPT !.analogCnt = 0, !.timer = 0]
       ELSE [g EXCEPT !.analogCnt = cnt]

\* receive and test the miller decoding
MillerTest(g, pass) ==
    IF pass = g.env.frameAt
    THEN [GetCmdReturn(g, 0, "command") EXCEPT !.len = g.env.len]
    ELSE g

\* if (checker-- == 0): the button test
ButtonTest(g) ==
    IF g.checker = 0
    THEN IF g.env.button
         THEN GetCmdReturn(g, AbortStatus, "button")
         ELSE [g EXCEPT !.flip = g.flip + 1, !.checker = CheckerStart]
    ELSE [g EXCEPT !.checker = g.checker - 1]

\* if (flip == 3): the test for data from the client
DataTest(g) ==
    IF g.flip = FlipLimit
    THEN IF g.env.data
         THEN GetCmdReturn(g, AbortStatus, "data")
         ELSE [g EXCEPT !.flip = 0]
    ELSE g

\* one pass of for (;;)
GetCmdLoop(g) ==
    LET pass == g.pass + 1
        g0 == [g EXCEPT !.pass = pass]
        g1 == DataTest(g0)
        g2 == IF g1.pc = "done" THEN g1 ELSE ButtonTest(g1)
        g3 == IF g2.pc = "done" THEN g2 ELSE FieldTest(g2, pass)
    IN IF g3.pc = "done" THEN g3 ELSE MillerTest(g3, pass)

EmGetCmdPass ==
    /\ getcmd.pc = "loop"
    /\ getcmd.pass < MaxGetCmdPasses
    /\ getcmd' = GetCmdLoop(getcmd)
    /\ UNCHANGED exceptGetCmd

----------------------------------------------------------------------------
(* Sessions: how SniffIso14443a and SimulateIso14443aTag end                *)

\* commands followed one after the other
MaxSessions == 4

\* tracing: the flag of set_tracing; field: g_hf_field_active and the FPGA
\* mode, on from iso14443a_setup to switch_off; allocated: BigBuf holds
\* buffers of the session; packets: what the last command sent with
\* reply_ng; cause: why it ended; before: tracing and field when it began
SessionIdle == [n |-> 0, op |-> "none", cause |-> "none", tracing |-> FALSE,
                field |-> FALSE, allocated |-> FALSE, packets |-> <<>>,
                before |-> [tracing |-> FALSE, field |-> FALSE]]

SessionInit == sess = SessionIdle

SessionStart(s, op) ==
    [s EXCEPT !.n = s.n + 1, !.op = op, !.cause = "none", !.packets = <<>>,
              !.before = [tracing |-> s.tracing, field |-> s.field]]

\* reply_ng(CMD_HF_MIFARE_SIMULATE, status, NULL, 0)
reply_ng(s, status) == [s EXCEPT !.packets = Append(@, status)]

SessionSetup(s) == [s EXCEPT !.field = TRUE]

SessionSwitchOff(s) == [s EXCEPT !.field = FALSE]

set_tracing(s, on) == [s EXCEPT !.tracing = on]

BigBuf_free(s) == [s EXCEPT !.allocated = FALSE]

BigBuf_calloc(s) == [s EXCEPT !.allocated = TRUE]

SessionEnd(s, cause) == [s EXCEPT !.cause = cause]

\* ReaderIso14443a with ISO14A_CONNECT, as far as tracing and the field go
ReaderSession(s0, noDisconnect) ==
    LET s1 == SessionSetup(set_tracing(SessionStart(s0, "reader"), TRUE))
    IN IF noDisconnect
       THEN SessionEnd(s1, "connected")
       ELSE SessionEnd(set_tracing(SessionSwitchOff(s1), FALSE), "disconnected")

ReaderIso14443a ==
    /\ sess.n < MaxSessions
    /\ \E noDisconnect \in BOOLEAN : sess' = ReaderSession(sess, noDisconnect)
    /\ UNCHANGED exceptSession

\* how the loop of SniffIso14443a ends
SniffEndings == {"button", "overrun", "trace full"}

\* SniffIso14443a(param)
SniffSession(s0, dmaOk, ending) ==
    LET s1 == SessionSetup(SessionStart(s0, "sniff"))
        s2 == BigBuf_calloc(set_tracing(BigBuf_free(s1), TRUE))
    IN IF ~dmaOk
       THEN SessionEnd(s2, "dma")
       ELSE SessionEnd(SessionSwitchOff(s2), ending)

SniffIso14443aSession ==
    /\ sess.n < MaxSessions
    /\ \E dmaOk \in BOOLEAN, ending \in SniffEndings :
          sess' = SniffSession(sess, dmaOk, ending)
    /\ UNCHANGED exceptSession

\* how the main loop of SimulateIso14443aTag ends: the wait for a command
\* is stopped, the number of reads asked for is reached, or the answer made
\* on the fly does not fit the modulation buffer
SimEndings == {"stopped", "finished", "modulation"}

\* what goes wrong before the main loop, if anything
SimSetups == {"ok", "alloc response", "alloc modulation", "init", "em address"}

\* SimulateIso14443aTag
SimSession(s0, setup, ending) ==
    LET s1 == BigBuf_free(SessionStart(s0, "sim"))
    IN CASE setup = "alloc response" ->
              SessionEnd(reply_ng(BigBuf_free(s1), "PM3_EMALLOC"), setup)
         [] setup = "alloc modulation" ->
              SessionEnd(reply_ng(BigBuf_free(BigBuf_calloc(s1)), "PM3_EMALLOC"), setup)
         [] setup = "init" ->
              SessionEnd(reply_ng(BigBuf_free(BigBuf_calloc(s1)), "PM3_EINIT"), setup)
         [] setup = "em address" ->
              SessionEnd(reply_ng(BigBuf_calloc(s1), "PM3_EMALLOC"), setup)
         [] OTHER ->
              LET s2 == set_tracing(SessionSetup(BigBuf_calloc(s1)), TRUE)
                  retval == IF ending = "stopped" THEN "PM3_EOPABORTED" ELSE "PM3_SUCCESS"
                  s3 == BigBuf_free(set_tracing(SessionSwitchOff(s2), FALSE))
              IN SessionEnd(reply_ng(s3, retval), ending)

SimulateIso14443aTagSession ==
    /\ sess.n < MaxSessions
    /\ \E setup \in SimSetups, ending \in SimEndings :
          sess' = SimSession(sess, setup, ending)
    /\ UNCHANGED exceptSession

----------------------------------------------------------------------------
(* SimulateIso14443aInit called session after session                       *)

\* simulation sessions started one after the other
MaxInitCalls == 2

\* the profiles simulated: Classic 1k, DESFire, FM11RF005SH, JCOP / EMV
InitTagTypes == {1, 3, 9, 11}

\* the UID lengths the flags name
InitFlags == {[uidlen |-> n, inEmul |-> FALSE] : n \in {4, 7, 10}}

NoInitArgs == [tagType |-> 0, flags |-> [uidlen |-> 0, inEmul |-> FALSE], data |-> Zeros(10)]

SimInitInit == simi = [n |-> 0, st |-> FreshStatics, ok |-> FALSE, args |-> NoInitArgs]

\* the start of a simulation session: SimulateIso14443aInit with no ATS
\* supplied, on the static arrays as the session before left them
SimulateIso14443aInitCall ==
    /\ simi.n < MaxInitCalls
    /\ \E tagType \in InitTagTypes, flags \in InitFlags, data \in UidData :
          LET r == SimulateIso14443aInit(simi.st, tagType, flags, data, EmulatorMemory)
          IN simi' = [n |-> simi.n + 1, st |-> r.st, ok |-> r.ok,
                      args |-> [tagType |-> tagType, flags |-> flags, data |-> data]]
    /\ UNCHANGED exceptSimInit

----------------------------------------------------------------------------
(* MillerDecoding on any stream of samples                                  *)

\* samples fed after the start of communication
MaxStreamSamples == 12

\* eight samples of one bit period as the receiver sees them: carrier
\* (Sequence Y), a pause in the first half (Z), in the second half (X), in
\* both halves
StreamSamples == {CarrierSample, PauseSample(SEC_Z), PauseSample(SEC_X), 51}

\* the sequence the decoder makes of the window it looks at
MillerSequence(u, bit) ==
    LET win == Shr(ShiftInFourBits(u.fourBits, bit), u.syncBit) % 256
    IN IF u.state = "UNSYNCD" \/ u.len = u.output_len THEN "none"
       ELSE IF IsMillerModulationNibble1(win)
       THEN IF IsMillerModulationNibble2(win) THEN "both" ELSE "Z"
       ELSE IF IsMillerModulationNibble2(win) THEN "X" ELSE "Y"

StreamIdle == [uart |-> Uart14aInit(ReceiveBufLen), prev |-> "UNSYNCD",
               seq |-> "none", done |-> FALSE, n |-> 0, started |-> FALSE]

StreamInit == ms = StreamIdle

RECURSIVE MillerFeedAll(_, _)
\* MillerDecoding called for each sample of a stream in turn
MillerFeedAll(u, stream) ==
    IF stream = <<>> THEN u
    ELSE MillerFeedAll(MillerDecoding(u, Head(stream)).uart, Tail(stream))

\* a receive loop starts and the reader begins a frame: carrier, then the
\* Sequence Z of the start of communication
StreamStart ==
    /\ ~ms.started
    /\ \E lead \in LeadIns :
          ms' = [StreamIdle EXCEPT
                    !.uart = MillerFeedAll(Uart14aInit(ReceiveBufLen),
                                           Repeat(CarrierSample, lead)
                                               \o <<PauseSample(SEC_Z)>>),
                    !.started = TRUE]
    /\ UNCHANGED exceptStream

\* one call of MillerDecoding by the receive loop, with any sample
StreamSample ==
    /\ ms.started
    /\ ~ms.done
    /\ ms.n < MaxStreamSamples
    /\ \E bit \in StreamSamples :
          LET r == MillerDecoding(ms.uart, bit)
          IN ms' = [ms EXCEPT !.uart = r.uart, !.prev = ms.uart.state,
                              !.seq = MillerSequence(ms.uart, bit),
                              !.done = r.done, !.n = @ + 1]
    /\ UNCHANGED exceptStream

----------------------------------------------------------------------------
(* The transmit gate: TransmitFor14443a, GetIso14443aAnswerFromTag and      *)
(* iso14a_set_ATS_times on NextTransferTime                                  *)

\* largest value of the ssp clock that is followed
MaxGateClk == 1000

\* frames sent after one iso14443a_setup
MaxGateFrames == 3

\* steps by which the clock advances between two operations
GateSteps == {211, 500}

\* offsets from the clock that a caller passes as *timing != 0
GateOffsets == {-3, 9, 600}

\* the startup frame guard time integers an ATS carries: none, 1, 2, RFU
AtsSfgi == {0, 1, 2, 15}

\* (DELAY_AIR2ARM_AS_READER + DELAY_ARM2AIR_AS_READER) / 16
PipelineDelay == (DELAY_AIR2ARM_AS_READER + DELAY_ARM2AIR_AS_READER) \div 16

\* NextTransferTime after an ATS with TB(1): sfgt = 256 * 16 * (1 << sfgi)
AtsNextTransferTime(ntt, endTime, sfgi) ==
    IF sfgi # 0 /\ sfgi # 15
    THEN MAX(ntt, endTime + (256 * 16 * Pow2(sfgi) - DELAY_AIR2ARM_AS_READER
                                - DELAY_ARM2AIR_AS_READER) \div 16)
    ELSE ntt

\* clk: GetCountSspClk(); ntt: NextTransferTime; start:
\* LastTimeProxToAirStart; endTime: Demod.endTime; sent, received: a frame
\* was sent, received since iso14443a_setup; frames: how many were sent;
\* awaiting: the answer to the last one is still to come; op: the last
\* operation
GateIdle == [clk |-> 0, ntt |-> 0, start |-> 0, endTime |-> 0, sent |-> FALSE,
             received |-> FALSE, field |-> FALSE, op |-> "init", frames |-> 0,
             awaiting |-> FALSE]

GateInit == gate = GateIdle

GateStep(g, op) == [g EXCEPT !.op = op]

\* iso14443a_setup in a reader mode
GateSetup ==
    /\ gate' = [GateIdle EXCEPT !.ntt = 2 * DELAY_ARM2AIR_AS_READER,
                                !.field = TRUE, !.op = "setup"]
    /\ UNCHANGED exceptGate

\* the clock runs
GateTick ==
    /\ \E d \in GateSteps :
          /\ gate.clk + d <= MaxGateClk
          /\ gate' = [GateStep(gate, "tick") EXCEPT !.clk = @ + d]
    /\ UNCHANGED exceptGate

\* the frame is out: the clock has reached its start
GateSent(g, op, start) ==
    [GateStep(g, op) EXCEPT !.clk = MAX(g.clk, AlignDown8(start)),
                            !.start = start,
                            !.ntt = GuardedNextTransferTime(g.ntt, start),
                            !.sent = TRUE,
                            !.frames = @ + 1,
                            !.awaiting = TRUE]

\* TransmitFor14443a(cmd, len, NULL)
GateTransmitNext ==
    /\ gate.field
    /\ gate.frames < MaxGateFrames
    /\ LET start == ThisTransferTime(gate.ntt, gate.clk)
       IN /\ start <= MaxGateClk
          /\ gate' = GateSent(gate, "tx_null", start)
    /\ UNCHANGED exceptGate

\* TransmitFor14443a(cmd, len, &t) with t == 0
GateTransmitNow ==
    /\ gate.field
    /\ gate.frames < MaxGateFrames
    /\ LET start == MeasuredTime(gate.clk)
       IN /\ start <= MaxGateClk
          /\ gate' = GateSent(gate, "tx_zero", start)
    /\ UNCHANGED exceptGate

\* TransmitFor14443a(cmd, len, &t) with t != 0
GateTransmitAt ==
    /\ gate.field
    /\ gate.frames < MaxGateFrames
    /\ \E off \in GateOffsets :
          LET t == gate.clk + off
          IN /\ t > 0
             /\ t <= MaxGateClk
             /\ gate' = GateSent(gate, "tx_at", t)
    /\ UNCHANGED exceptGate

\* GetIso14443aAnswerFromTag returning true: the frame ended at the clock
GateReceive ==
    /\ gate.field
    /\ gate.awaiting
    /\ gate.clk >= PipelineDelay
    /\ gate' = [GateStep(gate, "rx") EXCEPT
                   !.endTime = gate.clk,
                   !.received = TRUE,
                   !.awaiting = FALSE,
                   !.ntt = MAX(gate.ntt, gate.clk - PipelineDelay
                                             + FRAME_DELAY_TIME_PICC_TO_PCD)]
    /\ UNCHANGED exceptGate

\* iso14a_set_ATS_times on a received ATS with TB(1)
GateAtsTimes ==
    /\ gate.op = "rx"
    /\ \E sfgi \in AtsSfgi :
          gate' = [GateStep(gate, "ats") EXCEPT
                      !.ntt = AtsNextTransferTime(gate.ntt, gate.endTime, sfgi)]
    /\ UNCHANGED exceptGate

----------------------------------------------------------------------------
(* Specifications and properties *)

\* the state after construction: nothing sent, both decoders reset
Init ==
    /\ TimingInit
    /\ CodecInit
    /\ DemodInit
    /\ SelectInit
    /\ SniffInit
    /\ EmuInit
    /\ ApduInit
    /\ ConfigInit
    /\ PrngInit
    /\ MifareInit
    /\ EmLogInit
    /\ ParityInit
    /\ GetCmdInit
    /\ SessionInit
    /\ SimInitInit
    /\ StreamInit
    /\ GateInit

TimingNext ==
    \/ iso14443a_setup
    \/ switch_off
    \/ Tick
    \/ TransmitFieldOff
    \/ TransmitNext
    \/ TransmitNow
    \/ TransmitAt
    \/ AnswerReceived

SpecTiming == Init /\ [][TimingNext]_vars

Transmitted == lastOp \in {"tx_null", "tx_zero", "tx_at"}

\* C1: after every TransmitFor14443a that transmits, in each of the three
\* timing modes (timing NULL, *timing == 0, *timing != 0),
\* NextTransferTime - LastTimeProxToAirStart >= REQUEST_GUARD_TIME
C1_GuardTimeAfterTransmit ==
    Transmitted => NextTransferTime - LastTimeProxToAirStart >= REQUEST_GUARD_TIME

\* a timed transmit in the past, after which the older NextTransferTime stands
C1_Witness ==
    /\ lastOp = "tx_at"
    /\ LastTimeProxToAirStart < clk
    /\ NextTransferTime > LastTimeProxToAirStart + REQUEST_GUARD_TIME

MillerNext ==
    \/ ReaderSends
    \/ MillerFeed
    \/ FrameTaken

SpecMiller == Init /\ [][MillerNext]_vars

\* the bits the decoder reported: len whole bytes, or the bitCount bits of
\* a last partial byte
ReceivedBits(rx) ==
    IF rx.bitCount > 0 THEN 8 * (rx.len - 1) + rx.bitCount ELSE 8 * rx.len

\* C2: every reader frame of n >= 1 whole bytes with one parity bit per byte,
\* and every 7-bit short frame, encoded by CodeIso14443aBitsAsReaderPar and
\* fed to MillerDecoding after unmodulated carrier, completes exactly one
\* frame whose bytes, parity bits and bit length equal those encoded
C2_MillerRoundTrip ==
    /\ rxCount <= 1
    /\ (sent # NoFrame /\ air = <<>>) =>
          /\ rxCount = 1
          /\ rxFrame.cmd = sent.cmd
          /\ rxFrame.len = Len(sent.cmd)
          /\ ReceivedBits(rxFrame) = sent.bits
          /\ sent.bits = 7 => rxFrame.bitCount = 7
          /\ sent.bits # 7 =>
                \A i \in 0..(Len(sent.cmd) - 1) :
                    ParityBitOf(rxFrame.par, i) = ParityBitOf(sent.par, i)

\* the long frame with inverted parity came through
C2_Witness ==
    /\ air = <<>>
    /\ rxCount = 1
    /\ Len(sent.cmd) = 9
    /\ ParityBitOf(sent.par, 0) # oddparity8(sent.cmd[1])
    /\ rxFrame.cmd = sent.cmd
    /\ Len(rxFrame.par) = 2

ManchesterNext ==
    \/ TagSends
    \/ ManchesterFeed
    \/ FrameTaken

SpecManchester == Init /\ [][ManchesterNext]_vars

\* C3: every tag frame T of n >= 1 bytes, encoded by CodeIso14443aAsTag and
\* fed to ManchesterDecoding at offset 0 after an unmodulated field,
\* completes exactly one frame equal to T with collisionPos = 0, and the
\* recovered parity bit of byte i equals oddparity8(T[i])
C3_ManchesterRoundTrip ==
    /\ rxCount <= 1
    /\ (/\ sent # NoFrame
        /\ air = <<>>
        /\ line = [stream |-> AnswerSymbols(sent.cmd, FALSE), offset |-> 0]) =>
          /\ rxCount = 1
          /\ rxFrame.cmd = sent.cmd
          /\ rxFrame.len = Len(sent.cmd)
          /\ rxFrame.bitCount = 0
          /\ rxFrame.collisionPos = 0
          /\ \A i \in 0..(Len(sent.cmd) - 1) :
                ParityBitOf(rxFrame.par, i) = oddparity8(sent.cmd[i + 1])

\* a two-byte frame whose bytes have different parity came through
C3_Witness ==
    /\ air = <<>>
    /\ line = [stream |-> AnswerSymbols(sent.cmd, FALSE), offset |-> 0]
    /\ rxCount = 1
    /\ Len(sent.cmd) = 2
    /\ rxFrame.cmd = sent.cmd
    /\ ParityBitOf(rxFrame.par, 0) = 1
    /\ ParityBitOf(rxFrame.par, 1) = 0

\* the closed form of the reception agrees with the decoder fed sample by
\* sample, for partial answers and answers with collisions as well
ReceptionAgrees ==
    /\ rxCount <= 1
    /\ (line # NoLine /\ air = <<>>) =>
          LET r == ReceiveAnswer(line.stream, line.offset)
          IN /\ rxCount = 1
             /\ rxFrame.cmd = r.cmd
             /\ rxFrame.len = r.len
             /\ rxFrame.collisionPos = r.collisionPos

\* the symbols of the answer on the line in which both halves were modulated
Collided(l) == {j \in 1..Len(l.stream) : l.stream[j] = SEC_COLL}

\* C11: once ManchesterDecoding has decoded a frame, Demod.collisionPos is 0
\* if and only if no bit of the frame had modulation in both halves; a
\* collision on the very first bit of an answer is reported as a collision
C11_CollisionPos ==
    (line # NoLine /\ air = <<>> /\ rxCount = 1) =>
        (rxFrame.collisionPos = 0 <=> Collided(line) = {})

\* apart from a collision at bit 0 of the frame, the decoder reports the
\* first collision, counted from zero with the parity bits left out of the
\* count of whole bytes, and later collisions do not change it
CollisionPosZeroBased ==
    (line # NoLine /\ air = <<>> /\ rxCount = 1 /\ Collided(line) # {}) =>
        LET pos(j) == 8 * ((line.offset + j - 1) \div 9)
                      + ((line.offset + j - 1) % 9)
            seen == {j \in Collided(line) : pos(j) # 0}
        IN IF seen = {} THEN rxFrame.collisionPos = 0
           ELSE rxFrame.collisionPos =
                   pos(CHOOSE j \in seen : \A i \in seen : j <= i)

SelectNext ==
    \/ iso14443a_select_cardEx
    \/ SelectFudan
    \/ SelectAnticollision
    \/ SelectWalk
    \/ SelectUid
    \/ SelectKnownUid
    \/ SelectRats
    \/ iso14443a_fast_select_card
    \/ FastSelectLevel
    \/ SelectReturn

SpecSelect == Init /\ [][SelectNext]_vars

\* the emulated tag is being selected with anticollision under the default
\* configuration
EmulatedSelection ==
    /\ env.kind = "sim"
    /\ rd.fn = "select"
    /\ rd.anticollision
    /\ rd.cfg = DefaultConfig

\* the cascade level a frame's select code stands for
LevelOf(f) == (f.b[1] - ISO14443A_CMD_ANTICOLL_OR_SELECT) \div 2

\* C4: for a tag whose answers SimulateIso14443aInit built for a UID of 4, 7
\* or 10 bytes and that the SimulateIso14443aTag dispatch serves,
\* iso14443a_select_cardEx with anticollision and the default configuration
\* returns with p_card->uidlen equal to the length of the source UID and
\* p_card->uid equal to its bytes, and the SAK answered at a cascade level
\* has bit 0x04 set exactly when a further cascade level remains
C4_SelectionRoundTrip ==
    EmulatedSelection =>
        /\ rd.pc # "undefined"
        /\ rd.pc = "done" =>
              /\ rd.ret \in {1, 2}
              /\ rd.card.uidlen = env.uidlen
              /\ SubSeq(rd.card.uid, 1, env.uidlen) = env.uid
        /\ (rd.tx.len = 9 /\ rd.resp.len # 0) =>
              (And(ByteAt(rd.resp.b, 0), 4) # 0
                 <=> 3 * (LevelOf(rd.tx) + 1) + 1 < env.uidlen)

\* a ten-byte UID came back after three cascade levels
C4_Witness ==
    /\ EmulatedSelection
    /\ rd.pc = "done"
    /\ env.uidlen = 10
    /\ rd.card.uidlen = 10
    /\ rd.card.uid = env.uid
    /\ rd.cascade_level = 2

\* a frame of the cascade: select code and NVB from 0x20 to 0x77
SelFrame(f) == Len(f.b) >= 2 /\ f.b[2] >= 32 /\ f.b[2] <= 119

\* C6: every SEL byte sent by iso14443a_select_cardEx and by
\* iso14443a_fast_select_card is 0x93, 0x95 or 0x97, and the UID length in the
\* card descriptor stays within the ten bytes of its uid field
C6_ThreeCascadeLevels ==
    /\ SelFrame(rd.tx) =>
          rd.tx.b[1] \in {ISO14443A_CMD_ANTICOLL_OR_SELECT,
                          ISO14443A_CMD_ANTICOLL_OR_SELECT_2,
                          ISO14443A_CMD_ANTICOLL_OR_SELECT_3}
    /\ rd.card.uidlen <= 10

\* C7: when iso14443a_select_cardEx goes on to the next cascade level after a
\* SAK, the UID part it selected at the level before begins with the cascade
\* tag 0x88
C7_CascadeTagFirst ==
    (rd.fn = "select" /\ rd.pc = "cascade" /\ rd.cascade_level > 0) =>
        rd.tx.b[3] = MIFARE_SELECT_CT

\* C8: a step from the five-byte anticollision answer: with a BCC that is
\* not the XOR of the four UID bytes, forcebcc 0 returns 0 and sends nothing,
\* forcebcc 1 sends the SELECT with the XOR, forcebcc 2 sends it with the
\* card's BCC; with a matching BCC the SELECT goes out with it under every
\* policy
C8_BccPolicy ==
    [][(rd.pc = "select" /\ rd' # rd) =>
          LET u == rd.uid_resp
              x == Xor(Xor(u[1], u[2]), Xor(u[3], u[4]))
              selects(bcc) ==
                 /\ rd'.txCount = rd.txCount + 1
                 /\ rd'.tx.len = 9
                 /\ rd'.tx.b = <<147 + 2 * rd.cascade_level, 112,
                                 u[1], u[2], u[3], u[4], bcc>>
          IN IF u[5] = x THEN selects(u[5])
             ELSE /\ rd.cfg.forcebcc = 0 =>
                        /\ rd'.pc = "done"
                        /\ rd'.ret = 0
                        /\ rd'.txCount = rd.txCount
                        /\ rd'.tx = rd.tx
                  /\ rd.cfg.forcebcc = 1 => selects(x)
                  /\ rd.cfg.forcebcc = 2 => selects(u[5])]_vars

\* a SELECT went out with a BCC other than the one the card had sent
C8_Witness ==
    /\ rd.fn = "select"
    /\ rd.anticollision
    /\ rd.cfg.forcebcc = 1
    /\ rd.tx.len = 9
    /\ rd.tx.b[7] # rd.uid_resp[5]
    /\ rd.tx.b[7] = Xor(Xor(rd.tx.b[3], rd.tx.b[4]), Xor(rd.tx.b[5], rd.tx.b[6]))

\* force_rats, or forcerats 1, or forcerats 0 with bit 0x20 in the final SAK
RatsWanted(r) ==
    \/ r.force_rats
    \/ r.cfg.forcerats = 1
    \/ r.cfg.forcerats = 0 /\ And(r.sak, 32) # 0

\* C9: RATS is about to be sent or was sent only with no_rats false and the
\* SAK and override test passed; a call that ended after the last SELECT
\* with nothing sent since returned 2 when the test failed, and otherwise
\* returned 1 with no_rats set
C9_RatsDecision ==
    rd.fn = "select" =>
        /\ (rd.pc = "rats" \/ (rd.tx.len = 4 /\ rd.tx.b[1] = ISO14443A_CMD_RATS))
              => (~rd.no_rats /\ RatsWanted(rd))
        /\ (rd.pc = "done" /\ rd.tx.len = 9 /\ rd.resp.len # 0 /\ ~rd.do_cascade)
              => IF RatsWanted(rd) THEN rd.no_rats /\ rd.ret = 1
                 ELSE rd.ret = 2

\* RATS was sent on force_rats to a tag whose SAK lacks bit 0x20, with
\* forcerats set to skip
C9_Witness ==
    /\ rd.fn = "select"
    /\ rd.pc = "done"
    /\ rd.ret = 1
    /\ rd.tx.b = <<ISO14443A_CMD_RATS, 128>>
    /\ rd.force_rats
    /\ rd.cfg.forcerats = 2
    /\ And(rd.sak, 32) = 0

\* bit i, from 0, of the bytes b
BitOf(b, i) == Bit(ByteAt(b, i \div 8), i % 8)

\* the first data bit of an answer that had modulation in both halves, as a
\* bit position of the receive buffer; -1 when no bit had
TrueCollision(resp, offset) ==
    LET hits == {j \in 1..Len(resp.air) :
                   /\ (offset + j - 1) % 9 < 8
                   /\ IsManchesterModulationNibble1(resp.air[j])
                   /\ IsManchesterModulationNibble2(resp.air[j])}
        j0 == CHOOSE j \in hits : \A k \in hits : j <= k
    IN IF hits = {} THEN -1
       ELSE 8 * ((offset + j0 - 1) \div 9) + ((offset + j0 - 1) % 9)

\* the frame f is the partial SEL of the level with m UID bits: the known
\* bits, the bits of the answer before position cp, then a 1
WalkFrame(f, r, cp, m) ==
    /\ f.bits = 16 + m
    /\ f.b[1] = 147 + 2 * r.cascade_level
    /\ f.b[2] = (2 + (m \div 8)) * 16 + (m % 8)
    /\ \A i \in 0..(m - 2) :
          BitOf(SubSeq(f.b, 3, Len(f.b)), i)
             = IF i < r.uid_resp_bits THEN BitOf(r.uid_resp, i)
               ELSE BitOf(r.resp.b, r.offset + i - r.uid_resp_bits)
    /\ BitOf(SubSeq(f.b, 3, Len(f.b)), m - 1) = 1
    /\ \A i \in m..(8 * (Len(f.b) - 2) - 1) :
          BitOf(SubSeq(f.b, 3, Len(f.b)), i) = 0

\* C10: a step of the anticollision walk sends the partial SEL with the UID
\* bits known so far, the bits of the answer before its first collision and
\* a 1 at the collision, m bits in all, with NVB ((2 + m div 8) << 4) |
\* (m mod 8) and 16 + m bits on the air, and the walk goes on exactly while
\* the answers have a collision
C10_WalkStep ==
    [][(rd.pc = "walk" /\ rd' # rd) =>
          LET cp == TrueCollision(rd.resp, rd.offset)
              m == rd.uid_resp_bits + (cp - rd.offset) + 1
          IN /\ rd'.txCount = rd.txCount + 1
             /\ WalkFrame(rd'.tx, rd, cp, m)
             /\ rd'.pc = "walk" <=>
                   (rd'.resp.len # 0
                      /\ TrueCollision(rd'.resp, rd'.offset) >= 0)]_vars

\* the walk as the decoder reports the answers: a step that stays within the
\* five bytes of uid_resp sends the partial SEL built from the bits before
\* Demod.collisionPos, and the walk goes on while Demod.collisionPos is set
WalkFollowsDecoder ==
    [][(rd.pc = "walk" /\ rd' # rd
          /\ rd.uid_resp_bits + rd.resp.collisionPos - rd.offset < 40) =>
          LET cp == rd.resp.collisionPos
              m == rd.uid_resp_bits + (cp - rd.offset) + 1
          IN /\ rd'.txCount = rd.txCount + 1
             /\ WalkFrame(rd'.tx, rd, cp, m)
             /\ rd'.pc = "walk" <=>
                   (rd'.resp.len # 0 /\ rd'.resp.collisionPos # 0)]_vars

SniffNext ==
    \/ SniffIso14443a
    \/ SniffSample
    \/ SniffStop

SpecSniff == Init /\ [][SniffNext]_vars

\* C5: after every pass of the sniffer's loop the two activity flags are not
\* both set, the Miller decoder was fed only while the Manchester decoder
\* was in UNSYNCD, and the Manchester decoder only while the Miller decoder
\* was in UNSYNCD (after a completed frame or a fall back included)
C5_SnifferExclusion ==
    /\ ~(sniff.ReaderIsActive /\ sniff.TagIsActive)
    /\ sniff.fedReader => sniff.tagStateAtReaderFeed = "UNSYNCD"
    /\ sniff.fedTag => sniff.readerStateAtTagFeed = "UNSYNCD"
    /\ sniff.ReaderIsActive = (Uart.state # "UNSYNCD")
    /\ sniff.TagIsActive = (Demod.state # "UNSYNCD")

\* the tag's decoder is in a frame and the reader's decoder was left out
C5_Witness ==
    /\ sniff.TagIsActive
    /\ sniff.fedTag
    /\ ~sniff.fedReader
    /\ Demod.bitCount >= 1

\* the reader's decoder is in a frame and the tag's decoder was left out
C5_WitnessReader ==
    /\ sniff.ReaderIsActive
    /\ sniff.fedReader
    /\ ~sniff.fedTag
    /\ Uart.bitCount >= 2

EmulNext ==
    \/ EmulatorStart
    \/ EmulatorCommand
    \/ EmulatorStop

SpecEmul == Init /\ [][EmulNext]_vars

AuthNext ==
    \/ EmulatorStartAttack
    \/ EmulatorAuthentication
    \/ EmulatorStop

SpecAuth == Init /\ [][AuthNext]_vars

\* a pass of the main loop has just answered emu'.cmd
EmulatorAnswered == emu'.on /\ emu'.cmdsRecvd = emu.cmdsRecvd + 1

\* the REQA that arrives makes the number of REQAs of this run even
ReqaCountEven == ~emu.tag.odd_reply

\* C12: a REQA is answered with the precompiled ATQA whenever the emulator is
\* not HALTED or the REQA count is even, and a WUPA is always answered with
\* the ATQA
C12_ReqaWupa ==
    [][EmulatorAnswered =>
          /\ (/\ emu'.cmd = <<ISO14443A_CMD_REQA>>
              /\ (emu.tag.order # "HALTED" \/ ReqaCountEven))
                => emu'.ans = TagAnswer(emu.tag.st.rATQA, 0)
          /\ emu'.cmd = <<ISO14443A_CMD_WUPA>>
                => emu'.ans = TagAnswer(emu.tag.st.rATQA, 0)]_vars

\* what the main loop does: every second REQA is answered, whatever the
\* state, and every WUPA
ReqaEverySecond ==
    [][EmulatorAnswered =>
          /\ emu'.cmd = <<ISO14443A_CMD_REQA>>
                => emu'.ans = IF ReqaCountEven
                              THEN TagAnswer(emu.tag.st.rATQA, 0)
                              ELSE NoAnswer
          /\ emu'.cmd = <<ISO14443A_CMD_WUPA>>
                => emu'.ans = TagAnswer(emu.tag.st.rATQA, 0)]_vars

\* the frame is cmd with n bytes of arguments and a CRC that is right
GoodFrame(f, cmd, n) == Len(f) = n + 3 /\ f[1] = cmd /\ CheckCrc14A(f)

\* the pass answered the 4-bit NACK "invalid argument", sent no data and
\* left the emulator memory and the counters as they were
NackInvalidArgument ==
    /\ emu'.ans = EmSend4bit(CARD_NACK_IV)
    /\ emu'.mem = emu.mem
    /\ emu'.counter = emu.counter

\* a page-addressed command, other than FAST_READ, with its page beyond the
\* page count of the tag
PageOutOfRange(f) ==
    /\ \/ GoodFrame(f, ISO14443A_CMD_READBLOCK, 1)
       \/ GoodFrame(f, MIFARE_ULC_WRITE, 5)
       \/ GoodFrame(f, MIFARE_ULC_COMP_WRITE, 1)
    /\ f[2] > emu.pages

\* a FAST_READ whose range is not within the pages of the tag
RangeOutOfRange(f) ==
    /\ GoodFrame(f, MIFARE_ULEV1_FASTREAD, 2)
    /\ (f[2] > emu.pages \/ f[3] > emu.pages \/ f[2] > f[3])

\* a counter command of an NTAG with an index above 2
CounterOutOfRange(f) ==
    /\ \/ GoodFrame(f, MIFARE_ULEV1_READ_CNT, 1)
       \/ GoodFrame(f, MIFARE_ULEV1_INCR_CNT, 5)
       \/ GoodFrame(f, MIFARE_ULEV1_CHECKTEAR, 1)
    /\ emu.tag.tagType = 7
    /\ f[2] > 2

\* C13: an Ultralight or NTAG answers NACK_IV, sends no data and changes no
\* memory when the page of a READ, WRITE or COMP_WRITE is beyond its page
\* count, when a counter command has an index above 2, and when a FAST_READ
\* has b1 or b2 out of range or b1 > b2
C13_InvalidArgument ==
    [][(/\ emu.on /\ emu'.on /\ emu'.cmdsRecvd = emu.cmdsRecvd + 1
        /\ IsUL(emu.tag.tagType)
        /\ \/ PageOutOfRange(emu'.cmd)
           \/ RangeOutOfRange(emu'.cmd)
           \/ CounterOutOfRange(emu'.cmd))
          => NackInvalidArgument]_vars

\* what the main loop does: as claimed for the page and counter commands;
\* of a FAST_READ only the first page is compared with the page count
InvalidArgumentButFastReadEnd ==
    [][(/\ emu.on /\ emu'.on /\ emu'.cmdsRecvd = emu.cmdsRecvd + 1
        /\ IsUL(emu.tag.tagType)
        /\ \/ PageOutOfRange(emu'.cmd)
           \/ (RangeOutOfRange(emu'.cmd) /\ emu'.cmd[2] > emu.pages)
           \/ CounterOutOfRange(emu'.cmd))
          => NackInvalidArgument]_vars

\* part 1 of a compatibility write that the emulator accepts
CompWriteAccepted(e, f) ==
    /\ IsUL(e.tag.tagType)
    /\ GoodFrame(f, MIFARE_ULC_COMP_WRITE, 1)
    /\ f[2] <= e.pages

\* C14: COMP_WRITE part 1 with a valid CRC and a page within the page count
\* is answered with ACK and enters EV1_COMP_WRITE; the 18-byte frame that
\* follows is answered with ACK and writes its first 4 bytes to that page
\* and no other when its CRC is valid, is answered with NACK_PA and writes
\* nothing when not, and either way the state returns to NONE
C14_CompWriteRoundTrip ==
    [][(emu.on /\ emu'.on /\ emu'.cmdsRecvd = emu.cmdsRecvd + 1) =>
          /\ CompWriteAccepted(emu, emu'.cmd) =>
                /\ emu'.ans = EmSend4bit(CARD_ACK)
                /\ emu'.tag.order = "EV1_COMP_WRITE"
                /\ emu'.mem = emu.mem
          /\ (/\ emu.cmdsRecvd > 0
              /\ CompWriteAccepted(emu, emu.cmd)
              /\ Len(emu'.cmd) = 18) =>
                /\ emu'.tag.order = "NONE"
                /\ IF CheckCrc14A(emu'.cmd)
                   THEN /\ emu'.ans = EmSend4bit(CARD_ACK)
                        /\ PageAt(emu'.mem, emu.cmd[2]) = SubSeq(emu'.cmd, 1, 4)
                        /\ \A p \in 0..255 :
                              p # emu.cmd[2] =>
                                  PageAt(emu'.mem, p) = PageAt(emu.mem, p)
                   ELSE /\ emu'.ans = EmSend4bit(CARD_NACK_PA)
                        /\ emu'.mem = emu.mem]_vars

\* both parts of a compatibility write went through: page 4 holds the first
\* four bytes of the data
C14_Witness ==
    /\ emu.on
    /\ emu.cmdsRecvd >= 2
    /\ emu.cmd = AddCrc14A(CompData)
    /\ emu.wrblock = 4
    /\ emu.ans = EmSend4bit(CARD_ACK)
    /\ emu.tag.order = "NONE"
    /\ PageAt(emu.mem, 4) = SubSeq(CompData, 1, 4)
    /\ PageAt(emu.mem, 5) # SubSeq(CompData, 5, 8)

\* a frame of n bytes that starts with cmd and whose CRC bytes are wrong
WrongCrc(f, cmd, n) == Len(f) = n /\ f[1] = cmd /\ ~CheckCrc14A(f)

\* the commands with a CRC that check it: WRITE and both parts of COMP_WRITE
CheckedCommand(e, f) ==
    \/ e.tag.order = "EV1_COMP_WRITE" /\ Len(f) = 18 /\ ~CheckCrc14A(f)
    \/ IsUL(e.tag.tagType) /\ WrongCrc(f, MIFARE_ULC_WRITE, 8)
    \/ IsUL(e.tag.tagType) /\ WrongCrc(f, MIFARE_ULC_COMP_WRITE, 4)

\* the other commands with a CRC that the claim names
UncheckedCommand(e, f) ==
    \/ WrongCrc(f, ISO14443A_CMD_READBLOCK, 4)
    \/ IsUL(e.tag.tagType) /\ WrongCrc(f, MIFARE_ULEV1_FASTREAD, 5)
    \/ e.tag.tagType = 7 /\ WrongCrc(f, MIFARE_ULEV1_INCR_CNT, 8)
    \/ WrongCrc(f, ISO14443A_CMD_HALT, 4)
    \/ WrongCrc(f, ISO14443A_CMD_RATS, 4)
    \/ ~IsUL(e.tag.tagType) /\ WrongCrc(f, MIFARE_AUTH_KEYA, 4)
    \/ ~IsUL(e.tag.tagType) /\ WrongCrc(f, MIFARE_AUTH_KEYB, 4)

\* C15: a command with a wrong CRC (READ, FAST_READ, WRITE, COMP_WRITE part 1
\* and 2, INCR_CNT, HALT, RATS, AUTH) is answered with the 4-bit NACK_PA and
\* causes no memory write and no state transition (part 2 of a COMP_WRITE
\* ends the compatibility write)
C15_WrongCrcNack ==
    [][(/\ emu.on /\ emu'.on /\ emu'.cmdsRecvd = emu.cmdsRecvd + 1
        /\ (CheckedCommand(emu, emu'.cmd) \/ UncheckedCommand(emu, emu'.cmd)))
          => /\ emu'.ans = EmSend4bit(CARD_NACK_PA)
             /\ emu'.mem = emu.mem
             /\ emu'.counter = emu.counter
             /\ emu'.tag.order = IF Len(emu'.cmd) = 18 THEN "NONE"
                                 ELSE emu.tag.order]_vars

\* what the main loop does: the three branches that call CheckCrc14A answer
\* a wrong CRC as claimed
WrongCrcNackWhereChecked ==
    [][(/\ emu.on /\ emu'.on /\ emu'.cmdsRecvd = emu.cmdsRecvd + 1
        /\ CheckedCommand(emu, emu'.cmd))
          => /\ emu'.ans = EmSend4bit(CARD_NACK_PA)
             /\ emu'.mem = emu.mem
             /\ emu'.counter = emu.counter
             /\ emu'.tag.order = IF Len(emu'.cmd) = 18 THEN "NONE"
                                 ELSE emu.tag.order]_vars

\* the commands that take no notice of a wrong CRC act as on a right one
WrongCrcUnnoticed ==
    [][(/\ emu.on /\ emu'.on /\ emu'.cmdsRecvd = emu.cmdsRecvd + 1
        /\ UncheckedCommand(emu, emu'.cmd)
        /\ ~(emu.tag.order = "AUTH" /\ Len(emu'.cmd) = 8))
          => emu'.ans # EmSend4bit(CARD_NACK_PA)]_vars

\* an INCR_CNT of an NTAG on one of its three counters
IncrOfCounter(e, f) ==
    /\ e.tag.tagType = 7
    /\ Len(f) = 8
    /\ f[1] = MIFARE_ULEV1_INCR_CNT
    /\ f[2] <= 2

\* C16: over the commands an emulated NTAG receives its 24-bit counters
\* never decrease and never exceed 0xFFFFFF: an INCR_CNT whose sum with the
\* counter exceeds 0xFFFFFF is answered with NACK_NA and leaves the counter
\* as it is, any other INCR_CNT makes it old + increment and is answered
\* with ACK
C16_CounterMonotonic ==
    [][(emu.on /\ emu'.on /\ emu.tag.tagType = 7) =>
          /\ \A i \in 1..3 :
                /\ le24toh(emu'.counter[i]) >= le24toh(emu.counter[i])
                /\ le24toh(emu'.counter[i]) <= 16777215
          /\ IncrOfCounter(emu, emu'.cmd) =>
                LET i == emu'.cmd[2] + 1
                    old == le24toh(emu.counter[i])
                    inc == le24toh(SubSeq(emu'.cmd, 3, 5))
                IN IF old + inc > 16777215
                   THEN /\ emu'.ans = EmSend4bit(CARD_NACK_NA)
                        /\ emu'.counter = emu.counter
                   ELSE /\ emu'.ans = EmSend4bit(CARD_ACK)
                        /\ le24toh(emu'.counter[i]) = old + inc
                        /\ \A j \in 1..3 :
                              j # i => emu'.counter[j] = emu.counter[j]]_vars

\* counter 1 was incremented to 0xFFFFFF and the next increment was refused
C16_Witness ==
    /\ emu.on
    /\ emu.tag.tagType = 7
    /\ emu.cmdsRecvd >= 2
    /\ IncrOfCounter(emu, emu.cmd)
    /\ emu.cmd[2] = 1
    /\ emu.counter[2] = <<255, 255, 255>>
    /\ emu.counter # InitialCounters
    /\ emu.ans = EmSend4bit(CARD_NACK_NA)

\* the pass captured an {nr}{ar} frame for the pair of the last AUTH
Captured ==
    /\ emu.on /\ emu'.on /\ emu'.cmdsRecvd = emu.cmdsRecvd + 1
    /\ emu.attack
    /\ ~IsUL(emu.tag.tagType)
    /\ emu.tag.order = "AUTH"
    /\ Len(emu'.cmd) = 8
    /\ <<emu.cardAUTHSC, emu.cardAUTHKEY>> \in AuthPairs

\* the record the client gets for the second capture of the pair p, and no
\* record for the first: second says whether one capture of p is waiting
RecordFor(p, second) ==
    IF second
    THEN /\ emu'.rec.state = "SECOND"
         /\ emu'.rec.sector = p[1]
         /\ emu'.rec.keytype = p[2]
         /\ emu'.rec.nr2 = bytes_to_num(SubSeq(emu'.cmd, 1, 4))
         /\ emu'.rec.ar2 = bytes_to_num(SubSeq(emu'.cmd, 5, 8))
         /\ \A i \in 1..ATTACK_KEY_COUNT :
               emu'.ar_nr_nonces[i].state = "FIRST" =>
                   <<emu'.ar_nr_nonces[i].sector,
                     emu'.ar_nr_nonces[i].keytype>> # p
    ELSE emu'.rec = NoRecord

\* C17: with the capture enabled, the second {nr}{ar} frame captured for a
\* (sector, keytype) pair emits one record with both captures and clears the
\* slot, however the authentications to other pairs are interleaved, and the
\* first capture of a pair emits no record
C17_SecondCaptureEmits ==
    [][Captured =>
          LET p == <<emu.cardAUTHSC, emu.cardAUTHKEY>>
          IN RecordFor(p, emu.caps[p] % 2 = 1)]_vars

\* what the capture does: as claimed for every pair but sector 0 with key A,
\* whose sector and keytype are those of an empty slot
SecondCaptureEmitsButSector0KeyA ==
    [][Captured =>
          LET p == <<emu.cardAUTHSC, emu.cardAUTHKEY>>
          IN p # <<0, 0>> => RecordFor(p, emu.caps[p] % 2 = 1)]_vars

\* the pass answered an I-block: a frame with PCB pcb that no ordered state
\* took for itself
IBlock(pcb) ==
    /\ emu.on /\ emu'.on /\ emu'.cmdsRecvd = emu.cmdsRecvd + 1
    /\ emu.tag.tagType # 10
    /\ Len(emu'.cmd) >= 2
    /\ emu'.cmd[1] \in pcb
    /\ ~(emu.tag.order = "EV1_COMP_WRITE" /\ Len(emu'.cmd) = 18)
    /\ ~(emu.tag.order = "AUTH" /\ Len(emu'.cmd) = 8 /\ ~IsUL(emu.tag.tagType))

\* C18: an I-block without CID (PCB 0x02/0x03) is answered with
\* {PCB, 0x90, 0x00, CRC} and one with CID (PCB 0x0A/0x0B) with
\* {PCB, CID, 0x90, 0x00, CRC}, for every value of the received second byte
C18_IBlockStatusWord ==
    [][/\ IBlock({2, 3}) =>
             emu'.ans = TagAnswer(<<emu'.cmd[1], 144, 0>>, 2)
       /\ IBlock({10, 11}) =>
             emu'.ans = TagAnswer(<<emu'.cmd[1], emu'.cmd[2], 144, 0>>, 2)]_vars

\* what the emulator sends: the second byte of the answer is the second
\* byte received, also where the I-block has no CID
IBlockSecondByteCopied ==
    [][/\ IBlock({2, 3}) =>
             emu'.ans = TagAnswer(<<emu'.cmd[1], emu'.cmd[2], 0>>, 2)
       /\ IBlock({10, 11}) =>
             emu'.ans = TagAnswer(<<emu'.cmd[1], emu'.cmd[2], 144, 0>>, 2)]_vars

\* the pass answered a RATS
RatsReceived ==
    /\ emu.on /\ emu'.on /\ emu'.cmdsRecvd = emu.cmdsRecvd + 1
    /\ Len(emu'.cmd) = 4
    /\ emu'.cmd[1] = ISO14443A_CMD_RATS

\* the SAK of the emulated profile says "ISO 14443-4 compliant"
Iso14443_4Compliant(t) == And(TagTypeSak(t), 32) # 0

\* C19: a RATS is answered with the precompiled ATS when the SAK of the
\* emulated profile has bit 0x20 set, and for no other profile
C19_RatsOnlyWhenCompliant ==
    [][RatsReceived =>
          (emu'.ans = TagAnswer(emu.tag.st.rATS, 2)
              <=> Iso14443_4Compliant(emu.tag.tagType))]_vars

\* what the emulator does: Mifare Classic 1k and Ultralight refuse the RATS
\* with NACK_NA, every other tag type sends its ATS
RatsRefusedByTwoTypes ==
    [][RatsReceived =>
          emu'.ans = IF emu.tag.tagType \in {1, 2}
                     THEN EmSend4bit(CARD_NACK_NA)
                     ELSE TagAnswer(emu.tag.st.rATS, 2)]_vars

\* the sniffer went through its loop once
SniffPassed ==
    /\ sniff.running
    /\ sniff'.running
    /\ sniff'.rx_samples = sniff.rx_samples + 1

\* C20: with a trigger mode selected no frame of either direction is written
\* to the trace before the trigger event (the first tag answer for bit 0,
\* the first 7-bit reader frame for bit 1) has occurred, every frame decoded
\* after it is written, and with no trigger mode every decoded frame is
\* written
C20_NothingTracedBeforeTrigger ==
    [][SniffPassed =>
          /\ sniff'.traced # 0 => sniff'.triggered
          /\ (sniff'.frames # 0 /\ sniff.triggered) =>
                sniff'.traced = sniff'.frames
          /\ (sniff'.frames # 0 /\ And(sniff.param, 3) = 0) =>
                sniff'.traced = sniff'.frames]_vars

\* what the loop does: a reader frame is written when the sniffer is
\* triggered, a tag frame always, and the trigger stays once it is set
TagFramesAlwaysTraced ==
    [][SniffPassed =>
          /\ sniff'.frames = 1 => (sniff'.traced = 1 <=> sniff'.triggered)
          /\ sniff'.frames = 2 => sniff'.traced = 2
          /\ sniff'.frames = 0 => sniff'.traced = 0
          /\ sniff.triggered => sniff'.triggered
          /\ And(sniff.param, 3) = 0 => sniff.triggered]_vars

ApduNext ==
    \/ ApduConnect
    \/ ApduRats
    \/ ApduExchange

SpecApdu == Init /\ [][ApduNext]_vars

\* the last frame received in the call, <<>> if none came
LastReceived == IF apdu.rx = <<>> THEN <<>> ELSE apdu.rx[Len(apdu.rx)]

\* the call ended with one of the error values 0, -1, -3
ApduError == apdu.op = "apdu" /\ (apdu.ret \in {0 - 1, 0 - 3} \/ (apdu.ret = 0 /\ LastReceived = <<>>))

\* C21: iso14_pcb_blocknum is always 0 or 1, a CONNECT and a RATS exchange
\* leave it 0, iso14_apdu toggles it only for a received I-block or R(ACK)
\* with the current block number and a valid CRC, and a call that returns an
\* error (0, -1, -3) leaves it unchanged
C21_BlockNumber ==
    /\ apdu.blocknum \in {0, 1}
    /\ apdu.op \in {"connect", "rats"} => apdu.blocknum = 0
    /\ apdu.op = "apdu" /\ apdu.blocknum # apdu.before =>
          /\ CheckCrc14A(LastReceived)
          /\ And(LastReceived[1], 1) = apdu.before
          /\ (And(LastReceived[1], 192) = 0 \/ And(LastReceived[1], 208) = 128)
    /\ ApduError => apdu.blocknum = apdu.before

\* what the code does: the toggle does not wait for the CRC check, so it
\* happens for every such block of three bytes or more, also when the call
\* then returns -1
BlockNumberToggledBeforeCrc ==
    /\ apdu.blocknum \in {0, 1}
    /\ apdu.op \in {"connect", "rats"} => apdu.blocknum = 0
    /\ apdu.op = "apdu" /\ apdu.blocknum # apdu.before =>
          /\ Len(LastReceived) >= 3
          /\ And(LastReceived[1], 1) = apdu.before
          /\ (And(LastReceived[1], 192) = 0 \/ And(LastReceived[1], 208) = 128)
          /\ apdu.ret # 0 - 3
    /\ apdu.op = "apdu" /\ apdu.ret \in {0, 0 - 3} /\ Len(LastReceived) # 1 =>
          apdu.blocknum = apdu.before

\* a call returned -1 and the block number is toggled
ToggledOnCrcError == apdu.op = "apdu" /\ apdu.ret = 0 - 1 /\ apdu.blocknum # apdu.before

\* WTXM of the WTX block received as the i-th answer of the call
WtxmOf(i) == And(apdu.rx[i][2], 63)

\* the receptions of the last call that followed a WTX block
AfterWtx == {i \in 2..Len(apdu.rx) : apdu.op = "apdu"}

\* C22: after an S(WTX) block with multiplier WTXM iso14_apdu receives with
\* a timeout of at most WTXM times the base timeout saved at entry and never
\* above MAX_ISO14A_TIMEOUT, having sent the WTX back, and does so for as
\* long as the answer is a WTX block
C22_WtxTimeout ==
    \A i \in AfterWtx :
        /\ IsWtx(apdu.rx[i - 1])
        /\ apdu.tx[i] = WtxReply(apdu.rx[i - 1])
        /\ apdu.rxTimeouts[i] <= WtxmOf(i - 1) * apdu.base
        /\ apdu.rxTimeouts[i] <= MAX_ISO14A_TIMEOUT

\* what the code does: the timeout after a WTX is the larger of WTXM times
\* the base and MAX_ISO14A_TIMEOUT, the WTX goes back with WTXM masked to six
\* bits, a call that was not stopped ends with an answer that is no WTX
\* block and with the base timeout restored, and a stopped call leaves the
\* extended timeout in place
WtxTimeoutAtLeastMax ==
    /\ \A i \in AfterWtx :
          /\ IsWtx(apdu.rx[i - 1])
          /\ apdu.tx[i] = WtxReply(apdu.rx[i - 1])
          /\ apdu.rxTimeouts[i] = MAX(WtxmOf(i - 1) * apdu.base, MAX_ISO14A_TIMEOUT)
    /\ apdu.op = "apdu" /\ apdu.ret # 0 - 3 =>
          /\ ~IsWtx(LastReceived)
          /\ iso14a_get_timeout(apdu.timeout) = apdu.base
    /\ apdu.op = "apdu" /\ apdu.ret = 0 - 3 =>
          /\ IsWtx(LastReceived)
          /\ Len(apdu.rx) > 1 =>
                iso14a_get_timeout(apdu.timeout) = apdu.rxTimeouts[Len(apdu.rx)]

\* two WTX blocks were answered in one call, the first asking for less than
\* MAX_ISO14A_TIMEOUT
TwoWtxAnswered ==
    /\ apdu.op = "apdu"
    /\ Len(apdu.rx) = 3
    /\ WtxmOf(1) * apdu.base < MAX_ISO14A_TIMEOUT
    /\ apdu.rxTimeouts[2] = MAX_ISO14A_TIMEOUT

ConfigNext == setHf14aConfig

SpecConfig == Init /\ [][ConfigNext]_vars

\* the frames in use: the first frame_count slots
ActivePolling ==
    [k \in 1..hf14a.polling.frame_count |-> hf14a.polling.frames[k - 1]]

\* the list the stored configuration asks for
ConfiguredPolling ==
    <<WUPA_CMD_FRAME>>
      \o (IF hf14a.config.magsafe = 1 THEN MAGWUPA_CMD_FRAMES ELSE <<>>)
      \o (IF hf14a.config.polling_loop_annotation.frame_length > 0
          THEN <<hf14a.config.polling_loop_annotation>> ELSE <<>>)

\* C23: after any sequence of setHf14aConfig calls the active polling list is
\* WUPA, then the four Magsafe WUPA frames iff magsafe = 1, then the
\* polling_loop_annotation frame iff its frame_length > 0; frame_count is the
\* number of listed frames and does not exceed the capacity of frames[]
C23_PollingList ==
    /\ ActivePolling = ConfiguredPolling
    /\ hf14a.polling.frame_count <= PollingFramesLen

\* what the code does: the list is cut after ARRAYLEN(frames) - 1 frames, so
\* with magsafe = 1 the annotation frame is left out, while the extra
\* timeout is set for it all the same
PollingListCutAtFive ==
    /\ ActivePolling = SubSeq(ConfiguredPolling, 1,
                              MIN(Len(ConfiguredPolling), PollingFramesLen - 1))
    /\ hf14a.polling.frame_count < PollingFramesLen
    /\ hf14a.polling.extra_timeout =
          IF hf14a.config.polling_loop_annotation.frame_length > 0 THEN 250 ELSE 0

\* magsafe and an annotation frame are both configured
MagsafeWithAnnotation ==
    /\ hf14a.calls > 1
    /\ hf14a.config.magsafe = 1
    /\ hf14a.config.polling_loop_annotation.frame_length > 0
    /\ hf14a.polling.frame_count = PollingFramesLen - 1

PrngNext ==
    \/ PrngSeed
    \/ PrngAdvance
    \/ PrngUnrelated
    \/ DistCall
    \/ DistLoop
    \/ DistCallBack

SpecPrng == Init /\ [][PrngNext]_vars

\* dist_nt(nt1, nt2) has returned
DistReturned == prng.pc = "ret" /\ prng.calls = 1

\* dist_nt(nt1, nt2) and then dist_nt(nt2, nt1) have returned
BothReturned == prng.pc = "ret" /\ prng.calls = 2

\* C24: for a valid nonce nt and 0 <= k < 32768, dist_nt(nt,
\* prng_successor(nt, k)) = k; for valid nonces a and b, dist_nt(a, b) =
\* -dist_nt(b, a); and dist_nt returns -99999 only after 32767 steps in
\* which neither nonce was reached from the other
C24_DistNt ==
    /\ DistReturned /\ ValidNonce(prng.nt1) /\ prng.related /\ prng.k < DistLoopEnd =>
          prng.ret = prng.k
    /\ BothReturned /\ ValidNonce(prng.nt1) /\ ValidNonce(prng.nt2) =>
          prng.ret = 0 - prng.first
    /\ prng.pc = "ret" /\ prng.ret = DistNone =>
          /\ prng.i = DistLoopEnd
          /\ ~(prng.related /\ prng.k < DistLoopEnd)

\* the largest distance was found forwards and then backwards
C24_Witness ==
    /\ BothReturned
    /\ ValidNonce(prng.nt1)
    /\ prng.k = DistLoopEnd - 1
    /\ prng.first = DistLoopEnd - 1
    /\ prng.ret = 1 - DistLoopEnd

MifareNext ==
    \/ ReaderMifare
    \/ MifarePass

SpecMifare == Init /\ [][MifareNext]_vars

\* the loop of ReaderMifare has been left
MifareEnded == ~mf.running /\ mf.calls > 0

\* C25: while nt_attacked is not set the loop ends with isOK = 4 as soon as
\* more than MAX_SYNC_TRIES recalibrations were due and with isOK = 3 as
\* soon as more than MAX_UNEXPECTED_RANDOM nonce distances were invalid, and
\* every exit sets isOK to the one of 1..6 that names its cause: 1 eight
\* NACKs, 2 all 256 parities without NACK, 5 button, 6 a four-byte answer
C25_BoundedCalibration ==
    /\ mf.running => /\ mf.sync_tries <= MAX_SYNC_TRIES
                     /\ mf.unexpected_random <= MAX_UNEXPECTED_RANDOM
    /\ MifareEnded =>
          /\ mf.isOK \in 1..6
          /\ mf.replies = 1
          /\ mf.isOK = 1 <=> mf.nacks = 8
          /\ mf.isOK = 2 <=> mf.tried = 256 /\ mf.nacks = 0
          /\ mf.isOK = 3 <=> mf.unexpected_random = MAX_UNEXPECTED_RANDOM + 1
          /\ mf.isOK = 4 <=> mf.sync_tries = MAX_SYNC_TRIES + 1
          /\ mf.isOK = 5 <=> mf.cause = "button"
          /\ mf.isOK = 6 <=> mf.cause = "answer"
          /\ mf.isOK \in {3, 4} => mf.nt_attacked = 0

\* the calibration gave up after 33 tries, four invalid distances having
\* been passed over before
C25_Witness ==
    /\ MifareEnded
    /\ mf.isOK = 4
    /\ mf.unexpected_random = MAX_UNEXPECTED_RANDOM
    /\ mf.sync_tries = MAX_SYNC_TRIES + 1

\* the loop was left with isOK = k
ExitTaken(k) == MifareEnded /\ mf.isOK = k

\* the places that stand for nonces in ReaderMifare give the distance that
\* dist_nt returns for the words themselves
DistanceOfPlaces ==
    /\ DistReturned /\ ValidNonce(prng.nt1) /\ prng.related =>
          prng.ret = NtDistance(1, 1 + prng.k)
    /\ DistReturned /\ ValidNonce(prng.nt1) /\ prng.nt2 = <<0, 0>> =>
          prng.ret = NtDistance(1, PRNG_SEQUENCE_LENGTH + 1)

EmLogNext == EmLogTraceCall

SpecEmLog == Init /\ [][EmLogNext]_vars

Abs(x) == IF x < 0 THEN 0 - x ELSE x

\* the measured and the logged frame delay of the last call
MeasuredFdt == emlog.measured.tag_StartTime - emlog.measured.reader_EndTime

LoggedFdt == emlog.logged.tag_StartTime - emlog.logged.reader_EndTime

\* C26: the reader frame is logged with end = tag_StartTime - exact_fdt,
\* exact_fdt being the value congruent to 20 modulo 64 nearest to the
\* measured gap, and with start = end - (reader_EndTime - reader_StartTime)
\* for every frame length, so that
\* reader_start < reader_end <= tag_start < tag_end
C26_LoggedTimes ==
    emlog.calls > 0 =>
        /\ LoggedFdt % 64 = 20
        /\ Abs(LoggedFdt - MeasuredFdt) <= 32
        /\ emlog.logged.reader_EndTime - emlog.logged.reader_StartTime =
              emlog.measured.reader_EndTime - emlog.measured.reader_StartTime
        /\ emlog.logged.reader_StartTime < emlog.logged.reader_EndTime
        /\ emlog.logged.reader_EndTime <= emlog.logged.tag_StartTime
        /\ emlog.logged.tag_StartTime < emlog.logged.tag_EndTime

\* what the code does: the three differences are kept in uint16_t, so the
\* claimed times are logged as long as the command lasts less than 65536
\* cycles and the gap is below 65536 - 44; beyond that both are taken
\* modulo 65536
LoggedTimesModulo ==
    emlog.calls > 0 =>
        /\ LoggedFdt % 64 = 20
        /\ MeasuredFdt < 65536 - 44 => Abs(LoggedFdt - MeasuredFdt) <= 32
        /\ emlog.logged.reader_EndTime - emlog.logged.reader_StartTime =
              (emlog.measured.reader_EndTime - emlog.measured.reader_StartTime) % 65536
        /\ emlog.logged.reader_EndTime <= emlog.logged.tag_StartTime
        /\ emlog.logged.tag_StartTime < emlog.logged.tag_EndTime

\* a command of 57 bytes with the usual gap: logged shorter than it was
LongCommandLogged ==
    /\ emlog.calls > 0
    /\ emlog.len = 57
    /\ MeasuredFdt = 1172
    /\ emlog.logged.reader_EndTime = emlog.measured.reader_EndTime
    /\ emlog.logged.reader_StartTime > emlog.measured.reader_StartTime

ParityNext == GetParityCall

SpecParity == Init /\ [][ParityNext]_vars

\* ceil(n / 8)
CeilDiv8(n) == (n + 7) \div 8

\* the parity bits of the command are where the claim has them, and the
\* other bits of the first n parity bytes are 0
ParityBitsPacked(n) ==
    /\ \A i \in 0..(Len(gp.cmd) - 1) :
          ParityBitOf(gp.par, i) = oddparity8(gp.cmd[i + 1])
    /\ \A i \in Len(gp.cmd)..(8 * n - 1) : ParityBitOf(gp.par, i) = 0

\* C27: for every byte sequence of length len, GetParity sets bit
\* (7 - i mod 8) of par[i div 8] to oddparity8(cmd[i]) for each i < len,
\* leaves the other bits of the written parity bytes 0, and writes exactly
\* ceil(len / 8) parity bytes, one parity bit per byte of payload
C27_GetParity ==
    gp.called =>
        /\ ParityBitsPacked(CeilDiv8(Len(gp.cmd)))
        /\ gp.stores = CeilDiv8(Len(gp.cmd))
        /\ \A k \in (CeilDiv8(Len(gp.cmd)) + 1)..ParityBufLen : gp.par[k] = StaleParity[k]

\* what the code does: the bits are packed as claimed, and len div 8 + 1
\* parity bytes are written, one more than ceil(len / 8) when len is a
\* multiple of 8
GetParityWritesLenDiv8Plus1 ==
    gp.called =>
        /\ ParityBitsPacked(Len(gp.cmd) \div 8 + 1)
        /\ gp.stores = Len(gp.cmd) \div 8 + 1
        /\ \A k \in (Len(gp.cmd) \div 8 + 2)..ParityBufLen : gp.par[k] = StaleParity[k]

\* eight bytes given: two parity bytes written
EightBytesTwoParityBytes ==
    /\ gp.called
    /\ Len(gp.cmd) = 8
    /\ gp.stores = 2
    /\ gp.par[2] = 0

GetCmdNext == EmGetCmd \/ EmGetCmdPass

SpecGetCmd == Init /\ [][GetCmdNext]_vars

GetCmdReturned == getcmd.pc = "done"

\* C28: EmGetCmd returns 0 only when a reader command has been captured,
\* with *len its length, returns 1 when it stops because the button was
\* pressed and 2 when the field has been absent for more than 4 ms, so the
\* return value alone tells the three outcomes apart
C28_ReturnValues ==
    GetCmdReturned =>
        /\ getcmd.ret = 0 => getcmd.cause = "command" /\ getcmd.len = getcmd.env.len
        /\ getcmd.cause = "button" => getcmd.ret = 1
        /\ getcmd.cause = "field" => getcmd.ret = 2

\* what the code does: 2 is returned for the missing field alone and after
\* more than 4 ms without it, 0 for a captured command and for both ways of
\* stopping, which leave *len 0
AbortReturnsZero ==
    GetCmdReturned =>
        /\ getcmd.ret \in {0, 2}
        /\ getcmd.ret = 2 <=> getcmd.cause = "field"
        /\ getcmd.cause = "field" =>
              /\ getcmd.timer # 0
              /\ TickAt(getcmd.pass) - getcmd.timer > NoFieldTicks
        /\ getcmd.cause = "command" => getcmd.len = getcmd.env.len /\ getcmd.len > 0
        /\ getcmd.cause \in {"button", "data"} => getcmd.ret = 0 /\ getcmd.len = 0

GetCmdStoppedBy(cause) == GetCmdReturned /\ getcmd.cause = cause

ButtonReturnsZero == GetCmdStoppedBy("button") /\ getcmd.ret = 0

DataReturnsZero == GetCmdStoppedBy("data") /\ getcmd.ret = 0

FieldLossReturnsTwo == GetCmdStoppedBy("field") /\ getcmd.ret = 2

CommandReturnsZero == GetCmdStoppedBy("command") /\ getcmd.len = 4

SessionNext == ReaderIso14443a \/ SniffIso14443aSession \/ SimulateIso14443aTagSession

SpecSession == Init /\ [][SessionNext]_vars

\* the fatal failures of a sniff or simulation session
FatalCauses == {"alloc response", "alloc modulation", "init", "em address", "dma",
                "modulation", "overrun"}

FatalEnd == sess.op \in {"sniff", "sim"} /\ sess.cause \in FatalCauses

\* C29: whenever a sniff or simulation session ends because of a fatal
\* failure (buffer allocation, SimulateIso14443aInit, DMA setup, modulation
\* buffer overflow, circular buffer overrun), tracing is disabled, the field
\* is off, and exactly one status packet is emitted, its status the error
\* kind and never PM3_SUCCESS
C29_FatalFailure ==
    FatalEnd =>
        /\ ~sess.tracing
        /\ ~sess.field
        /\ Len(sess.packets) = 1
        /\ sess.packets[1] # "PM3_SUCCESS"

\* what the code does at each fatal failure
FatalFailureByCause ==
    /\ FatalEnd /\ sess.cause \in {"alloc response", "alloc modulation", "init", "em address"} =>
          /\ sess.tracing = sess.before.tracing
          /\ sess.field = sess.before.field
          /\ sess.packets = <<IF sess.cause = "init" THEN "PM3_EINIT" ELSE "PM3_EMALLOC">>
    /\ FatalEnd /\ sess.cause = "modulation" =>
          /\ ~sess.tracing
          /\ ~sess.field
          /\ sess.packets = <<"PM3_SUCCESS">>
    /\ FatalEnd /\ sess.cause = "dma" =>
          sess.tracing /\ sess.field /\ sess.packets = <<>>
    /\ FatalEnd /\ sess.cause = "overrun" =>
          sess.tracing /\ ~sess.field /\ sess.packets = <<>>
    /\ FatalEnd /\ sess.cause \in {"alloc response", "alloc modulation", "init", "modulation"} =>
          ~sess.allocated

\* a simulation that cannot allocate, started while a reader session is
\* still connected: the field stays on and tracing enabled
AllocFailureWithFieldOn ==
    /\ FatalEnd
    /\ sess.cause = "alloc response"
    /\ sess.tracing
    /\ sess.field

ModulationOverflowReportsSuccess ==
    FatalEnd /\ sess.cause = "modulation" /\ sess.packets = <<"PM3_SUCCESS">>

SimInitNext == SimulateIso14443aInitCall

SpecSimInit == Init /\ [][SimInitNext]_vars

\* the answers a first session with the arguments of the last call builds
FirstSessionAnswers ==
    SimulateIso14443aInit(FreshStatics, simi.args.tagType, simi.args.flags,
                          simi.args.data, EmulatorMemory).st

SessionBuilt == simi.n > 0 /\ simi.ok

\* C30: the answers SimulateIso14443aInit builds depend on the arguments of
\* the call and on emulator memory alone: ATQA, UIDCn, SAKCn and ATS are
\* those of a first session with the same tagType, flags and UID, whatever
\* was simulated before, and a Classic 1k with a 4-byte UID answers
\* ATQA {0x04, 0x00}
C30_SessionIndependent ==
    SessionBuilt =>
        /\ simi.st = FirstSessionAnswers
        /\ simi.args.tagType = 1 /\ simi.args.flags.uidlen = 4 =>
              simi.st.rATQA = <<4, 0>>

\* the cascade levels of the UID of the last call
UsedLevels == (simi.args.flags.uidlen - 1) \div 3

\* what the code does, for a UID given in the data: the first ATQA byte and the UID and SAK answers of
\* the cascade levels in use are built anew at every call; the second ATQA
\* byte, the ATS and the answers of the other levels are new only where the
\* profile assigns them, and are otherwise what the session before left
AssignedAnswersOnly ==
    SessionBuilt /\ simi.args.data # Zeros(10) =>
        /\ simi.st.rATQA[1] = FirstSessionAnswers.rATQA[1]
        /\ simi.st.rUIDc1 = FirstSessionAnswers.rUIDc1
        /\ simi.st.rSAKc1 = FirstSessionAnswers.rSAKc1
        /\ UsedLevels >= 2 =>
              /\ simi.st.rUIDc2 = FirstSessionAnswers.rUIDc2
              /\ simi.st.rSAKc2 = FirstSessionAnswers.rSAKc2
        /\ UsedLevels >= 3 =>
              /\ simi.st.rUIDc3 = FirstSessionAnswers.rUIDc3
              /\ simi.st.rSAKc3 = FirstSessionAnswers.rSAKc3
        /\ simi.args.tagType \in {3, 9} => simi.st.rATQA = FirstSessionAnswers.rATQA
        /\ simi.args.tagType \in {3, 11} => simi.st.rATS = FirstSessionAnswers.rATS
        /\ simi.n = 1 => simi.st = FirstSessionAnswers

\* a Classic 1k session after a DESFire session answers ATQA {0x04, 0x03}
\* and the ATS of the DESFire
ClassicAfterDesfire ==
    /\ SessionBuilt
    /\ simi.n = 2
    /\ simi.args.tagType = 1
    /\ simi.args.flags.uidlen = 4
    /\ simi.st.rATQA = <<4, 3>>
    /\ simi.st.rATS = <<6, 117, 119, 129, 2, 128>>

StreamNext == StreamStart \/ StreamSample

SpecStream == Init /\ [][StreamNext]_vars

\* the decoder is as Uart14aReset leaves it
DecoderReset ==
    /\ ms.uart.state = "UNSYNCD"
    /\ ms.uart.len = 0
    /\ ms.uart.bitCount = 0
    /\ ~ms.done

\* C31 as stated: a Sequence X directly after a Sequence X resets the
\* decoder to UNSYNCD, and so does a Sequence Y directly after the start of
\* communication
C31_XAfterX ==
    /\ ms.prev = "MILLER_X" /\ ms.seq = "X" => DecoderReset
    /\ ms.prev = "START_OF_COMMUNICATION" /\ ms.seq = "Y" => DecoderReset

\* C31: a Sequence Z directly after a Sequence X resets the decoder to
\* UNSYNCD, and so does a Sequence Y directly after the start of
\* communication; a Sequence X after a Sequence X is a second 1
C31_ZAfterX ==
    /\ ms.prev = "MILLER_X" /\ ms.seq = "Z" => DecoderReset
    /\ ms.prev = "START_OF_COMMUNICATION" /\ ms.seq = "Y" => DecoderReset
    /\ ms.prev = "MILLER_X" /\ ms.seq = "X" /\ ~ms.done =>
          /\ ms.uart.state = "MILLER_X"
          /\ ms.uart.bitCount + 9 * ms.uart.len >= 2

C31_Witness ==
    /\ ms.prev = "MILLER_X"
    /\ ms.seq = "Z"
    /\ DecoderReset
    /\ ms.n >= 2

TwoOnesDecoded ==
    /\ ms.prev = "MILLER_X"
    /\ ms.seq = "X"
    /\ ms.uart.state = "MILLER_X"
    /\ ms.uart.bitCount = 2

GateNext ==
    \/ GateSetup
    \/ GateTick
    \/ GateTransmitNext
    \/ GateTransmitNow
    \/ GateTransmitAt
    \/ GateReceive
    \/ GateAtsTimes

SpecGate == Init /\ [][GateNext]_vars

\* C32: a transmit with timing == NULL starts no earlier than
\* REQUEST_GUARD_TIME after the start of the previous transmit and no earlier
\* than FRAME_DELAY_TIME_PICC_TO_PCD after the end of the last received tag
\* frame less the pipeline delays, at a multiple of 8 ssp cycles; and
\* NextTransferTime never decreases between two iso14443a_setup calls
C32_TransmitGate ==
    [][/\ GateTransmitNext =>
             /\ gate.sent => gate'.start >= gate.start + REQUEST_GUARD_TIME
             /\ gate.received =>
                   gate'.start >= gate.endTime - PipelineDelay
                                      + FRAME_DELAY_TIME_PICC_TO_PCD
             /\ gate'.start % 8 = 0
             /\ gate'.clk >= gate'.start
       /\ ~GateSetup => gate'.ntt >= gate.ntt]_vars

\* a transmit with timing == NULL after a transmit and a reception, held
\* back by the frame delay: the clock alone would have let it start a slot
\* earlier
C32_Witness ==
    /\ gate.op = "tx_null"
    /\ gate.received
    /\ gate.start >= REQUEST_GUARD_TIME + 8
    /\ gate.start - 8 < gate.endTime - PipelineDelay + FRAME_DELAY_TIME_PICC_TO_PCD
    /\ gate.clk = gate.start

\* the emulator memory of the pass that is about to run, and after it
OtpBefore == PageAt(emu.mem, 3)

\* a bit of the OTP page that is 1 before the pass is 0 after it
OtpBitCleared == Risky(OtpBefore, PageAt(emu'.mem, 3))

\* C33: over any sequence of commands accepted by the UL/NTAG emulator a bit
\* of the OTP page (page 3) that is 1 never becomes 0: a write that would
\* clear one, by WRITE or by COMP_WRITE, is answered NACK_IV and leaves the
\* emulator memory unchanged
C33_OtpNeverCleared ==
    [][emu.on /\ EmulatorAnswered /\ IsUL(emu.tag.tagType) =>
          /\ ~OtpBitCleared
          /\ (/\ emu'.cmd = AddCrc14A(CompData)
              /\ emu.tag.order = "EV1_COMP_WRITE"
              /\ emu.wrblock = 3
              /\ Risky(OtpBefore, SubSeq(CompData, 1, 4)))
             => /\ emu'.ans = EmSend4bit(CARD_NACK_IV)
                /\ emu'.mem = emu.mem]_vars

\* what the code does keep: a WRITE to page 3 that would clear a bit is
\* answered NACK_IV and leaves the memory as it is; a compatibility write to
\* page 3 is stored whatever it clears
OtpGuardedForWriteOnly ==
    [][emu.on /\ EmulatorAnswered /\ IsUL(emu.tag.tagType) =>
          /\ (/\ Len(emu'.cmd) = 8
              /\ emu'.cmd[1] = MIFARE_ULC_WRITE
              /\ CheckCrc14A(emu'.cmd)
              /\ emu'.cmd[2] = 3
              /\ Risky(OtpBefore, SubSeq(emu'.cmd, 3, 6)))
             => /\ emu'.ans = EmSend4bit(CARD_NACK_IV)
                /\ emu'.mem = emu.mem
          /\ OtpBitCleared =>
                /\ emu.tag.order = "EV1_COMP_WRITE"
                /\ emu.wrblock = 3
                /\ Len(emu'.cmd) = 18]_vars

\* a compatibility write has cleared a bit of the OTP page
OtpClearedByCompWrite ==
    /\ emu.on
    /\ emu.cmd = AddCrc14A(CompData)
    /\ emu.ans = EmSend4bit(CARD_ACK)
    /\ emu.wrblock = 3
    /\ PageAt(emu.mem, 3) = SubSeq(CompData, 1, 4)
    /\ Risky(OtpPage, PageAt(emu.mem, 3))

\* the pass before this one was a COMP_WRITE part 1 that was acknowledged
AfterAcknowledgedPart1 ==
    /\ emu.cmdsRecvd > 0
    /\ Len(emu.cmd) = 4
    /\ emu.cmd[1] = MIFARE_ULC_COMP_WRITE
    /\ emu.ans = EmSend4bit(CARD_ACK)

\* C34: an 18-byte frame is treated as COMP_WRITE part 2 only when it is the
\* very next frame after an acknowledged COMP_WRITE part 1; any other command
\* in between cancels the pending compatibility write, so a later 18-byte
\* frame writes nothing
C34_Part2OnlyNext ==
    [][(/\ emu.on /\ EmulatorAnswered
        /\ Len(emu'.cmd) = 18
        /\ ~AfterAcknowledgedPart1) =>
          /\ emu'.mem = emu.mem
          /\ emu'.ans # EmSend4bit(CARD_ACK)]_vars

\* what the code keeps: an 18-byte frame is part 2 exactly while order is
\* ORDER_EV1_COMP_WRITE, whatever was received since part 1
Part2WhilePending ==
    [][(emu.on /\ EmulatorAnswered /\ Len(emu'.cmd) = 18) =>
          IF emu.tag.order = "EV1_COMP_WRITE"
          THEN /\ emu'.tag.order = "NONE"
               /\ emu'.ans \in {EmSend4bit(CARD_ACK), EmSend4bit(CARD_NACK_PA)}
          ELSE emu'.mem = emu.mem]_vars

\* a READ was answered after part 1 and the compatibility write is still
\* pending
PendingAfterRead ==
    /\ emu.on
    /\ emu.cmd = AddCrc14A(<<ISO14443A_CMD_READBLOCK, 4>>)
    /\ emu.ans # NoAnswer
    /\ emu.wrblock = 4
    /\ emu.tag.order = "EV1_COMP_WRITE"

\* a HALT as the emulator takes it: 0x50 in a frame of four bytes
IsHalt(f) == Len(f) = 4 /\ f[1] = ISO14443A_CMD_HALT

\* the pass before this one took a HALT: no WUPA has been received since
JustHalted == emu.cmdsRecvd > 0 /\ IsHalt(emu.cmd)

\* C35: after HALT (0x50, length 4) the emulator sends no response and enters
\* HALTED; while HALTED it answers no command other than WUPA (no READ, WRITE,
\* AUTH, anticollision or SELECT) until a WUPA has been received
C35_HaltedSilent ==
    [][(emu.on /\ EmulatorAnswered) =>
          /\ IsHalt(emu'.cmd) =>
                emu'.ans = NoAnswer /\ emu'.tag.order = "HALTED"
          /\ (JustHalted /\ emu'.cmd # <<ISO14443A_CMD_WUPA>>) =>
                emu'.ans = NoAnswer]_vars

\* what the code keeps: HALT is not answered and sets order to ORDER_HALTED
HaltEntersHalted ==
    [][(emu.on /\ EmulatorAnswered /\ IsHalt(emu'.cmd)) =>
          emu'.ans = NoAnswer /\ emu'.tag.order = "HALTED"]_vars

\* a READ directly after a HALT was answered with data
ReadAnsweredWhenHalted ==
    /\ emu.on
    /\ emu.cmd = AddCrc14A(<<ISO14443A_CMD_READBLOCK, 4>>)
    /\ emu.tag.order = "HALTED"
    /\ emu.ans # NoAnswer
    /\ emu.ans # EmSend4bit(CARD_NACK_IV)

\* C36: during the anticollision walk of one cascade level uid_resp_bits
\* never exceeds 40 and the partial SEL never exceeds the 9-byte sel_uid
\* buffer, for any sequence of tag answers, a collision in every answer
\* included; the walk ends after a bounded number of rounds
C36_WalkBounded ==
    [][rd.pc = "walk" =>
          /\ rd'.pc # "undefined"
          /\ rd'.uid_resp_bits <= 40
          /\ rd'.tx.len <= 9]_vars

\* what the code keeps: the walk goes on while the answers hold a collision
\* and stores within uid_resp while fewer than 40 bits are accumulated
WalkWithinBufferBelow40 ==
    [][(/\ rd.pc = "walk"
        /\ rd.uid_resp_bits + MAX(rd.resp.collisionPos - rd.offset, 0) < 40) =>
          /\ rd'.uid_resp_bits <= 40
          /\ rd'.tx.len <= 9
          /\ rd'.pc = "undefined" =>
                rd'.uid_resp_bits + MAX(rd'.resp.len * 8 - rd'.offset, 0) > 40]_vars

\* the walk has accumulated 40 bits and the answer holds one more collision:
\* the next bit goes to uid_resp[5]
WalkPastUidResp ==
    /\ rd.pc = "undefined"
    /\ rd.resp.collisionPos # 0
    /\ rd.uid_resp_bits + MAX(rd.resp.collisionPos - rd.offset, 0) >= 40

\* C37: in ReaderMifare sync_cycles is strictly positive whenever it is used
\* to advance sync_time, for any sequence of tag nonces, so the loop that
\* skips whole PRNG periods always ends and elapsed_prng_sequences is never
\* 0 when used as a divisor
C37_SyncCyclesPositive ==
    mf.running =>
        /\ mf.sync_cycles > 0
        /\ ~mf.stuck
        /\ mf.elapsed_prng_sequences > 0

\* what the code keeps: the calibration before nt_attacked is set leaves
\* sync_cycles above 10, and sync_cycles goes below that only by the
\* adjustment to a sync that was lost four times in a row by the same amount
CalibrationKeepsPositive ==
    [][(mf.running /\ mf'.running /\ mf'.sync_cycles # mf.sync_cycles) =>
          \/ mf'.sync_cycles > 10
          \/ /\ mf.nt_attacked # 0
             /\ mf.consecutive_resyncs = 2
             /\ mf'.consecutive_resyncs = 0
             /\ mf'.sync_cycles = mf.sync_cycles + mf.last_catch_up]_vars

\* sync was lost by the same amount often enough: sync_cycles is 0 and the
\* pass that uses it does not leave the loop on sync_time
SyncCyclesZero ==
    /\ mf.running
    /\ mf.stuck
    /\ mf.sync_cycles = 0
    /\ mf.nt_attacked # 0

\* C38: iso14_apdu leaves the receive timeout, as iso14a_get_timeout reads
\* it, equal to its value at entry on every return path, the abort during
\* the WTX handling (return -3) and the CRC failure (return -1) included
C38_TimeoutRestored ==
    apdu.op = "apdu" => iso14a_get_timeout(apdu.timeout) = apdu.base

\* what the code keeps: every return but the abort after an answered WTX
\* leaves the timeout of the entry
TimeoutRestoredUnlessAborted ==
    (apdu.op = "apdu" /\ ~(apdu.ret = 0 - 3 /\ Len(apdu.rx) > 1)) =>
        iso14a_get_timeout(apdu.timeout) = apdu.base

\* a call ended on a wrong CRC after a WTX, with the timeout of its entry
CrcFailureAfterWtx ==
    /\ apdu.op = "apdu"
    /\ apdu.ret = 0 - 1
    /\ Len(apdu.rx) > 1
    /\ iso14a_get_timeout(apdu.timeout) = apdu.base

\* a SELECT as the emulator takes it: 0x93, NVB 0x70, nine bytes
IsSelect1(f) ==
    Len(f) = 9 /\ f[1] = ISO14443A_CMD_ANTICOLL_OR_SELECT /\ f[2] = 112

\* the UID bytes and the BCC of the SELECT are those of the emulated tag
AddressedToTag(e, f) == SubSeq(f, 3, 7) = e.tag.st.rUIDc1

\* C39: the tag emulator sends SAKCn in answer to a SELECT (0x93/0x95/0x97,
\* NVB 0x70, length 9) only if the UID bytes and BCC of the command equal
\* its own UIDCn of that cascade level; a SELECT addressed to another UID
\* gets no response
C39_SelectOwnUid ==
    [][(emu.on /\ EmulatorAnswered /\ IsSelect1(emu'.cmd)) =>
          IF AddressedToTag(emu, emu'.cmd)
          THEN emu'.ans = TagAnswer(<<emu.tag.st.rSAKc1>>, 2)
          ELSE emu'.ans = NoAnswer]_vars

\* what the code does: every SELECT of nine bytes with NVB 0x70 is answered
\* with the SAK of its cascade level, whatever UID it carries
SelectAlwaysAnswered ==
    [][(emu.on /\ EmulatorAnswered /\ IsSelect1(emu'.cmd)
          /\ emu.tag.order \notin {"EV1_COMP_WRITE", "AUTH"}) =>
          emu'.ans = TagAnswer(<<emu.tag.st.rSAKc1>>, 2)]_vars

\* a SELECT addressed to the emulated tag was answered with its SAK
OwnSelectAnswered ==
    /\ emu.on
    /\ IsSelect1(emu.cmd)
    /\ AddressedToTag(emu, emu.cmd)
    /\ emu.ans = TagAnswer(<<emu.tag.st.rSAKc1>>, 2)

\* C40: after every MillerDecoding step Uart.bitCount lies in 0..8, so the
\* shift amount 9 - bitCount used at the end of communication lies in 1..9,
\* for any stream of samples, a frame included whose last byte is completed
\* by the logic 0 of the end-of-communication sequence (8 data bits without
\* parity)
C40_BitCountRange == ms.uart.bitCount \in 0..8

\* what the code keeps: bitCount is -1 only after an end of communication
\* that directly follows a stored byte, where nothing is shifted; where the
\* shift is made its amount is 9 - bitCount with bitCount in 1..8
BitCountFromMinusOne ==
    /\ ms.uart.bitCount \in -1..8
    /\ ms.uart.bitCount = -1 =>
          /\ ms.done
          /\ ms.uart.state = "UNSYNCD"
          /\ ms.uart.len > 0

\* eight data bits and the logic 0 of the end of communication were stored
\* as a byte, and the end of communication has counted that 0 back
ByteCompletedByEoc ==
    /\ ms.done
    /\ ms.n = 10
    /\ ms.uart.len = 1
    /\ ms.uart.bitCount = -1

====
